---- MODULE Spec2Model ----
(***************************************************************************)
(* Model of the LookCircuit face-analysis core: the skin tone detector,    *)
(* the season derivations, the face shape classifier and the orchestrator  *)
(* FaceAnalyzer.analyze.                                                   *)
(*                                                                         *)
(* Python floats are modelled as exact rationals [n |-> , d |-> ] with     *)
(* d > 0 in lowest terms; every comparison of the code is made on them.    *)
(***************************************************************************)
EXTENDS Integers, Sequences, FiniteSets

VARIABLES pc, image, skin_tone_result, face_shape_result, baldness_result,
          result, ran, call, request, _analyzer, other

vars == <<pc, image, skin_tone_result, face_shape_result, baldness_result,
          result, ran, call, request, _analyzer, other>>

(* Python's None, for the optional result objects and for color_season *)
None == [none |-> TRUE]
NoSeason == "None"

----------------------------------------------------------------------------
(* Exact rational arithmetic standing for float arithmetic *)

RECURSIVE GCD(_, _)
GCD(a, b) == IF b = 0 THEN a ELSE GCD(b, a % b)

AbsInt(x) == IF x < 0 THEN -x ELSE x

Rat(n, d) ==
    LET s == IF d < 0 THEN -1 ELSE 1
        g == GCD(AbsInt(n), AbsInt(d))
    IN  [n |-> (s * n) \div g, d |-> (s * d) \div g]

RInt(k) == [n |-> k, d |-> 1]
RAdd(x, y) == Rat(x.n * y.d + y.n * x.d, x.d * y.d)
RSub(x, y) == Rat(x.n * y.d - y.n * x.d, x.d * y.d)
RMul(x, y) == Rat(x.n * y.n, x.d * y.d)
RDiv(x, y) == Rat(x.n * y.d, x.d * y.n)
RLt(x, y) == x.n * y.d < y.n * x.d
RLe(x, y) == x.n * y.d <= y.n * x.d
RAbs(x) == [n |-> AbsInt(x.n), d |-> x.d]
RMin(x, y) == IF RLe(x, y) THEN x ELSE y
RMax(x, y) == IF RLe(y, x) THEN x ELSE y

----------------------------------------------------------------------------
(* IEEE 754 binary64 arithmetic, for the places where the rounding of a   *)
(* float operation decides a comparison.  A natural number is its         *)
(* sequence of limbs in base 2^15, lowest first, without leading zero     *)
(* limbs (a 53-bit mantissa does not fit the integers of the checker); a  *)
(* float is [s |-> sign, m |-> limbs, e |-> exponent] with value          *)
(* s * m * 2^e, m odd (or zero) and below 2^53.  Operations round to      *)
(* nearest, ties to even; overflow and subnormals do not occur for the    *)
(* values used.                                                           *)

LimbBase == 32768

RECURSIVE LTrim(_)
LTrim(a) == IF a = <<>> THEN <<>>
            ELSE IF a[Len(a)] = 0 THEN LTrim(SubSeq(a, 1, Len(a) - 1))
            ELSE a

RECURSIVE LFromInt(_)
LFromInt(n) ==
    IF n = 0 THEN <<>> ELSE <<n % LimbBase>> \o LFromInt(n \div LimbBase)

LLimb(a, i) == IF i <= Len(a) THEN a[i] ELSE 0

RECURSIVE LAddFrom(_, _, _, _)
LAddFrom(a, b, i, carry) ==
    IF i > Len(a) /\ i > Len(b)
    THEN (IF carry = 0 THEN <<>> ELSE <<carry>>)
    ELSE <<(LLimb(a, i) + LLimb(b, i) + carry) % LimbBase>>
         \o LAddFrom(a, b, i + 1,
                     (LLimb(a, i) + LLimb(b, i) + carry) \div LimbBase)

LAdd(a, b) == LAddFrom(a, b, 1, 0)

(* a - b for a >= b *)
RECURSIVE LSubFrom(_, _, _, _)
LSubFrom(a, b, i, borrow) ==
    IF i > Len(a) THEN <<>>
    ELSE <<(LLimb(a, i) - LLimb(b, i) - borrow + LimbBase) % LimbBase>>
         \o LSubFrom(a, b, i + 1,
                     IF LLimb(a, i) - LLimb(b, i) - borrow < 0 THEN 1 ELSE 0)

LSub(a, b) == LTrim(LSubFrom(a, b, 1, 0))

(* the highest limb position in which a and b of equal length differ *)
LTopDifference(a, b) ==
    CHOOSE i \in 1..Len(a) :
        a[i] # b[i] /\ \A j \in (i + 1)..Len(a) : a[j] = b[j]

(* -1, 0 or 1 as a < b, a = b or a > b *)
LCmp(a, b) ==
    IF Len(a) < Len(b) THEN -1
    ELSE IF Len(a) > Len(b) THEN 1
    ELSE IF a = b THEN 0
    ELSE IF a[LTopDifference(a, b)] < b[LTopDifference(a, b)] THEN -1
    ELSE 1

(* a * c for 0 <= c < 2^15 *)
RECURSIVE LMulSmallFrom(_, _, _, _)
LMulSmallFrom(a, c, i, carry) ==
    IF i > Len(a) THEN (IF carry = 0 THEN <<>> ELSE <<carry>>)
    ELSE <<(a[i] * c + carry) % LimbBase>>
         \o LMulSmallFrom(a, c, i + 1, (a[i] * c + carry) \div LimbBase)

LMulSmall(a, c) == IF c = 0 THEN <<>> ELSE LMulSmallFrom(a, c, 1, 0)

LShlLimbs(a, k) == IF a = <<>> THEN <<>> ELSE [i \in 1..k |-> 0] \o a

(* a * 2^k *)
LShl(a, k) == LShlLimbs(LMulSmall(a, 2 ^ (k % 15)), k \div 15)

RECURSIVE LMul(_, _)
LMul(a, b) ==
    IF a = <<>> \/ b = <<>> THEN <<>>
    ELSE LAdd(LMulSmall(b, Head(a)), LShlLimbs(LMul(Tail(a), b), 1))

(* the quotient of the limbs 1..i of a, taken after a remainder r, by c <= 2^15 *)
RECURSIVE LDivSmallFrom(_, _, _, _)
LDivSmallFrom(a, c, i, r) ==
    IF i = 0 THEN <<>>
    ELSE LDivSmallFrom(a, c, i - 1, (r * LimbBase + a[i]) % c)
         \o <<(r * LimbBase + a[i]) \div c>>

(* a \div 2^k *)
LShr(a, k) ==
    IF k \div 15 >= Len(a) THEN <<>>
    ELSE LTrim(LDivSmallFrom(SubSeq(a, (k \div 15) + 1, Len(a)), 2 ^ (k % 15),
                             Len(a) - (k \div 15), 0))

(* the number of bits of a *)
LBitLen(a) ==
    IF a = <<>> THEN 0
    ELSE 15 * (Len(a) - 1)
         + (CHOOSE k \in 1..15 : 2 ^ (k - 1) <= a[Len(a)] /\ a[Len(a)] < 2 ^ k)

LLowLimb(a) == CHOOSE i \in 1..Len(a) : a[i] # 0 /\ \A j \in 1..(i - 1) : a[j] = 0

(* the number of zero bits below the lowest set bit of a # 0 *)
LLowZeros(a) ==
    15 * (LLowLimb(a) - 1)
    + (CHOOSE k \in 0..14 : a[LLowLimb(a)] % (2 ^ k) = 0
                            /\ a[LLowLimb(a)] % (2 ^ (k + 1)) # 0)

(* the largest c with c * d <= r among est, est - 1 and est - 2 *)
LDigitFrom(r, d, est) ==
    IF LCmp(LMulSmall(d, est), r) <= 0 THEN est
    ELSE IF LCmp(LMulSmall(d, est - 1), r) <= 0 THEN est - 1
    ELSE est - 2

(* the quotient limb r \div d, for r < d * 2^15 and d of four limbs with *)
(* its top bit set: the estimate from the top limbs is at most 2 above   *)
LEstimate(r, d) == (LLimb(r, 5) * LimbBase + LLimb(r, 4)) \div d[4]

LDigit(r, d) ==
    LDigitFrom(r, d, IF LEstimate(r, d) >= LimbBase THEN LimbBase - 1
                     ELSE LEstimate(r, d))

(* long division: steps further limbs of the quotient of r * 2^(15 steps) *)
(* by d, below the limbs q already found; they are zero once r is zero    *)
RECURSIVE LDivLoop(_, _, _, _)
LDivNext(q, r, d, c, steps) ==
    LDivLoop(<<c>> \o q, LSub(r, LMulSmall(d, c)), d, steps - 1)

LDivLoop(q, r, d, steps) ==
    IF r = <<>> THEN [q |-> LTrim(LShlLimbs(q, steps)), r |-> <<>>]
    ELSE IF steps = 0 THEN [q |-> LTrim(q), r |-> r]
    ELSE LDivNext(q, LShlLimbs(r, 1), d, LDigit(LShlLimbs(r, 1), d), steps)

(* twice the quotient, plus the sticky bit of a non-zero remainder *)
LSticky(qr) ==
    LAdd(LMulSmall(qr.q, 2), IF qr.r = <<>> THEN <<>> ELSE <<1>>)

(* the float of value s * m * 2^e for m below 2^53, in its unique form *)
FCanon(s, m, e) ==
    IF m = <<>> THEN [s |-> 1, m |-> <<>>, e |-> 0]
    ELSE [s |-> s, m |-> LShr(m, LLowZeros(m)), e |-> e + LLowZeros(m)]

(* q is m without its sh lowest bits and rem are those bits: q, or q + 1 *)
(* when rem is above half, or is half and q is odd                       *)
FRoundCut(s, q, rem, sh, e) ==
    IF LCmp(rem, LShl(<<1>>, sh - 1)) > 0
       \/ (LCmp(rem, LShl(<<1>>, sh - 1)) = 0 /\ q[1] % 2 = 1)
    THEN FCanon(s, LAdd(q, <<1>>), e + sh)
    ELSE FCanon(s, q, e + sh)

FRoundShift(s, m, q, sh, e) == FRoundCut(s, q, LSub(m, LShl(q, sh)), sh, e)

(* s * m * 2^e rounded to the nearest float *)
FRound(s, m, e) ==
    IF LBitLen(m) <= 53 THEN FCanon(s, m, e)
    ELSE FRoundShift(s, m, LShr(m, LBitLen(m) - 53), LBitLen(m) - 53, e)

FromInt(n) == FCanon(IF n < 0 THEN -1 ELSE 1, LFromInt(AbsInt(n)), 0)

FNeg(x) == IF x.m = <<>> THEN x ELSE [s |-> -x.s, m |-> x.m, e |-> x.e]

FAbs(x) == [s |-> 1, m |-> x.m, e |-> x.e]

(* the signed sum of the aligned mantissas mx and my at exponent e *)
FAddAligned(sx, mx, sy, my, e) ==
    IF sx = sy THEN FRound(sx, LAdd(mx, my), e)
    ELSE IF LCmp(mx, my) >= 0 THEN FRound(sx, LSub(mx, my), e)
    ELSE FRound(sy, LSub(my, mx), e)

FAdd(x, y) ==
    IF x.m = <<>> THEN y
    ELSE IF y.m = <<>> THEN x
    ELSE IF x.e <= y.e
    THEN FAddAligned(x.s, x.m, y.s, LShl(y.m, y.e - x.e), x.e)
    ELSE FAddAligned(x.s, LShl(x.m, x.e - y.e), y.s, y.m, y.e)

FSub(x, y) == FAdd(x, FNeg(y))

FMul(x, y) == FRound(x.s * y.s, LMul(x.m, y.m), x.e + y.e)

(* x / y for y # 0: x.m scaled to 59 bits is divided by y.m scaled to 60 *)
(* bits, to four limbs (a quotient between 2^58 and 2^60)                *)
FDiv(x, y) ==
    IF x.m = <<>> THEN x
    ELSE FRound(x.s * y.s,
                LSticky(LDivLoop(<<>>, LShl(x.m, 59 - LBitLen(x.m)),
                                 LShl(y.m, 60 - LBitLen(y.m)), 4)),
                x.e - y.e - 60 - LBitLen(y.m) + LBitLen(x.m))

FNegative(x) == x.m # <<>> /\ x.s = -1

FLt(x, y) == FNegative(FSub(x, y))

FLe(x, y) == ~FNegative(FSub(y, x))

FMin(x, y) == IF FLe(x, y) THEN x ELSE y

(* the float that the decimal literal p/q denotes *)
FLit(p, q) == FDiv(FromInt(p), FromInt(q))

----------------------------------------------------------------------------
(* skin_tone.py *)

(* mutant: the band of TYPE_II reaches up to 80, into the band of TYPE_I *)
FITZPATRICK_L_THRESHOLDS_m ==
    <<[low |-> 75, high |-> 100], [low |-> 65, high |-> 80],
      [low |-> 55, high |-> 65],  [low |-> 45, high |-> 55],
      [low |-> 35, high |-> 45],  [low |-> 0,  high |-> 35]>>

(* FITZPATRICK_L_THRESHOLDS, in the dict's insertion order TYPE_I..TYPE_VI *)
FITZPATRICK_L_THRESHOLDS ==
    <<[low |-> 75, high |-> 100], [low |-> 65, high |-> 75],
      [low |-> 55, high |-> 65],  [low |-> 45, high |-> 55],
      [low |-> 35, high |-> 45],  [low |-> 0,  high |-> 35]>>


(* mutant: the band bounds taken as low < l_value <= high *)
FirstBand_m(l_value) ==
    LET hits == {i \in 1..6 :
                   /\ RLt(RInt(FITZPATRICK_L_THRESHOLDS[i].low), l_value)
                   /\ RLe(l_value, RInt(FITZPATRICK_L_THRESHOLDS[i].high))}
    IN  IF hits = {} THEN 0
        ELSE CHOOSE i \in hits : \A j \in hits : i <= j

(* the first band, in dict order, with low <= l_value < high; 0 when none *)
FirstBand(l_value) ==
    LET hits == {i \in 1..6 :
                   /\ RLe(RInt(FITZPATRICK_L_THRESHOLDS[i].low), l_value)
                   /\ RLt(l_value, RInt(FITZPATRICK_L_THRESHOLDS[i].high))}
    IN  IF hits = {} THEN 0
        ELSE CHOOSE i \in hits : \A j \in hits : i <= j

_classify_fitzpatrick(l_value) ==
    LET i == FirstBand(l_value) IN
    IF i # 0
    THEN LET low == FITZPATRICK_L_THRESHOLDS[i].low
             high == FITZPATRICK_L_THRESHOLDS[i].high
             range_size == RInt(high - low)
             center == Rat(low + high, 2)
             distance_from_center == RAbs(RSub(l_value, center))
             confidence == RSub(RInt(1),
                                RDiv(distance_from_center,
                                     RDiv(range_size, RInt(2))))
         IN  [type |-> i,
              confidence |-> RMax(Rat(7, 10), RMin(Rat(98, 100), confidence))]
    ELSE IF RLe(RInt(75), l_value)
         THEN [type |-> 1, confidence |-> Rat(85, 100)]
         ELSE [type |-> 6, confidence |-> Rat(85, 100)]

(* the ratio b_shifted / a_shifted of _classify_undertone *)
UndertoneRatio(a_value, b_value) ==
    LET a0 == RAdd(a_value, RInt(128))
        b_shifted == RAdd(b_value, RInt(128))
        a_shifted == IF a0.n = 0 THEN Rat(1, 100) ELSE a0
    IN  RDiv(b_shifted, a_shifted)


(* mutant: the thresholds 1.1 and 0.9 taken inclusively *)
_classify_undertone_m(a_value, b_value) ==
    LET ratio == UndertoneRatio(a_value, b_value) IN
    IF RLe(Rat(11, 10), ratio)
    THEN [undertone |-> "warm", ratio |-> ratio,
          confidence |-> RMin(Rat(95, 100),
                              RAdd(Rat(7, 10),
                                   RMul(RSub(ratio, Rat(11, 10)), Rat(1, 10))))]
    ELSE IF RLe(ratio, Rat(9, 10))
    THEN [undertone |-> "cool", ratio |-> ratio,
          confidence |-> RMin(Rat(95, 100),
                              RAdd(Rat(7, 10),
                                   RMul(RSub(Rat(9, 10), ratio), Rat(1, 10))))]
    ELSE [undertone |-> "neutral", ratio |-> ratio,
          confidence |-> RAdd(Rat(8, 10),
                              RMul(RSub(RInt(1), RAbs(RSub(ratio, RInt(1)))),
                                   Rat(15, 100)))]

_classify_undertone(a_value, b_value) ==
    LET ratio == UndertoneRatio(a_value, b_value) IN
    IF RLt(Rat(11, 10), ratio)
    THEN [undertone |-> "warm", ratio |-> ratio,
          confidence |-> RMin(Rat(95, 100),
                              RAdd(Rat(7, 10),
                                   RMul(RSub(ratio, Rat(11, 10)), Rat(1, 10))))]
    ELSE IF RLt(ratio, Rat(9, 10))
    THEN [undertone |-> "cool", ratio |-> ratio,
          confidence |-> RMin(Rat(95, 100),
                              RAdd(Rat(7, 10),
                                   RMul(RSub(Rat(9, 10), ratio), Rat(1, 10))))]
    ELSE [undertone |-> "neutral", ratio |-> ratio,
          confidence |-> RAdd(Rat(8, 10),
                              RMul(RSub(RInt(1), RAbs(RSub(ratio, RInt(1)))),
                                   Rat(15, 100)))]

(* the floats that the literals of _classify_undertone denote *)
Lit_0_01 == FLit(1, 100)
Lit_1_1 == FLit(11, 10)
Lit_0_9 == FLit(9, 10)
Lit_0_95 == FLit(95, 100)
Lit_0_7 == FLit(7, 10)
Lit_0_1 == FLit(1, 10)
Lit_0_8 == FLit(8, 10)
Lit_0_15 == FLit(15, 100)
Lit_1_0 == FromInt(1)
Lit_128 == FromInt(128)

(* _classify_undertone as binary64 arithmetic evaluates it: the ratio *)
UndertoneRatio64(a_shifted, b_shifted) ==
    IF a_shifted.m = <<>> THEN FDiv(b_shifted, Lit_0_01)
    ELSE FDiv(b_shifted, a_shifted)

(* the undertone and the confidence for the binary64 ratio *)
UndertoneOf64(ratio) ==
    IF FLt(Lit_1_1, ratio)
    THEN [undertone |-> "warm",
          confidence |-> FMin(Lit_0_95,
                              FAdd(Lit_0_7, FMul(FSub(ratio, Lit_1_1), Lit_0_1)))]
    ELSE IF FLt(ratio, Lit_0_9)
    THEN [undertone |-> "cool",
          confidence |-> FMin(Lit_0_95,
                              FAdd(Lit_0_7, FMul(FSub(Lit_0_9, ratio), Lit_0_1)))]
    ELSE [undertone |-> "neutral",
          confidence |-> FAdd(Lit_0_8,
                              FMul(FSub(Lit_1_0, FAbs(FSub(ratio, Lit_1_0))),
                                   Lit_0_15))]

_classify_undertone_binary64(a_value, b_value) ==
    UndertoneOf64(UndertoneRatio64(FAdd(a_value, Lit_128), FAdd(b_value, Lit_128)))


(* mutant: light skin taken as fitzpatrick.value < 3 *)
get_season_m(fitzpatrick, undertone) ==
    LET is_light == fitzpatrick < 3
        is_warm == undertone = "warm"
    IN  IF is_light /\ is_warm THEN "spring"
        ELSE IF is_light /\ ~is_warm THEN "summer"
        ELSE IF ~is_light /\ is_warm THEN "autumn"
        ELSE "winter"

get_season(fitzpatrick, undertone) ==
    LET is_light == fitzpatrick <= 3
        is_warm == undertone = "warm"
    IN  IF is_light /\ is_warm THEN "spring"
        ELSE IF is_light /\ ~is_warm THEN "summer"
        ELSE IF ~is_light /\ is_warm THEN "autumn"
        ELSE "winter"

(* color_theory.py *)
determine_season(fitzpatrick_type, undertone) ==
    LET is_light == fitzpatrick_type <= 3
        is_warm == IF undertone = "neutral" THEN is_light
                   ELSE undertone = "warm"
    IN  IF is_light /\ is_warm THEN "spring"
        ELSE IF is_light /\ ~is_warm THEN "summer"
        ELSE IF ~is_light /\ is_warm THEN "autumn"
        ELSE "winter"

----------------------------------------------------------------------------
(* Skin regions.  A region is an h x w crop of one colour; lab is the pixel *)
(* value cv2.cvtColor(region, COLOR_BGR2LAB) yields for it (8-bit: L in     *)
(* 0..255, a and b in 0..255 with the +128 offset) and skin says whether    *)
(* the colour lies in one of the two HSV skin ranges of the mask.  The       *)
(* morphological open and close leave an all-set or all-clear mask as it is. *)
(* hex_color (_lab_to_hex) is not modelled: no decision depends on it.      *)

MaxDim == 4

RegionSize(region) == region.h * region.w

(* number of samples _extract_skin_lab_values returns; 0 stands for None *)
_extract_skin_lab_values(region) ==
    IF RegionSize(region) = 0 THEN 0
    ELSE LET n_mask == IF region.skin THEN region.h * region.w ELSE 0
             h == region.h
             w == region.w
             n_center == (((3 * h) \div 4) - (h \div 4)) *
                         (((3 * w) \div 4) - (w \div 4))
         IN  IF n_mask < 10 THEN n_center ELSE n_mask

RECURSIVE SumSeq(_)
SumSeq(s) == IF s = <<>> THEN 0 ELSE Head(s) + SumSeq(Tail(s))


(* mutant: a default result instead of None when there is nothing to sample *)
SkinToneAnalyze_m(skin_regions) ==
    LET cnt == [i \in DOMAIN skin_regions |->
                  IF RegionSize(skin_regions[i]) = 0 THEN 0
                  ELSE _extract_skin_lab_values(skin_regions[i])]
        total == SumSeq(cnt)
        chan(k) == SumSeq([i \in DOMAIN skin_regions |->
                             cnt[i] * skin_regions[i].lab[k]])
        avg_l == IF total = 0 THEN RInt(60) ELSE Rat(chan(1), total)
        avg_a == IF total = 0 THEN RInt(0) ELSE Rat(chan(2), total)
        avg_b == IF total = 0 THEN RInt(0) ELSE Rat(chan(3), total)
        fitz == _classify_fitzpatrick(avg_l)
        under == _classify_undertone(avg_a, avg_b)
    IN  [fitzpatrick_type |-> fitz.type,
         undertone |-> under.undertone,
         confidence |-> RDiv(RAdd(fitz.confidence, under.confidence),
                             RInt(2)),
         lab_values |-> <<avg_l, avg_a, avg_b>>,
         fitz_confidence |-> fitz.confidence,
         undertone_confidence |-> under.confidence,
         ratio |-> under.ratio]

(* SkinToneDetector.analyze *)
SkinToneAnalyze(skin_regions) ==
    IF skin_regions = <<>> \/
       \A i \in DOMAIN skin_regions : RegionSize(skin_regions[i]) = 0
    THEN None
    ELSE
    LET cnt == [i \in DOMAIN skin_regions |->
                  IF RegionSize(skin_regions[i]) = 0 THEN 0
                  ELSE _extract_skin_lab_values(skin_regions[i])]
        total == SumSeq(cnt)
        chan(k) == SumSeq([i \in DOMAIN skin_regions |->
                             cnt[i] * skin_regions[i].lab[k]])
    IN  IF total = 0 THEN None
        ELSE
        LET avg_l == Rat(chan(1), total)
            avg_a == Rat(chan(2), total)
            avg_b == Rat(chan(3), total)
            fitz == _classify_fitzpatrick(avg_l)
            under == _classify_undertone(avg_a, avg_b)
        IN  [fitzpatrick_type |-> fitz.type,
             undertone |-> under.undertone,
             confidence |-> RDiv(RAdd(fitz.confidence, under.confidence),
                                 RInt(2)),
             lab_values |-> <<avg_l, avg_a, avg_b>>,
             fitz_confidence |-> fitz.confidence,
             undertone_confidence |-> under.confidence,
             ratio |-> under.ratio]

(* tests/test_unit.py create_skin_image: the 8-bit LAB pixel the tests build *)
(* for a lightness l_value on the 0..100 scale (astype(uint8) truncates)     *)
create_skin_image(l_value, undertone) ==
    LET ab == IF undertone = "warm" THEN <<15, 25>>
              ELSE IF undertone = "cool" THEN <<18, 10>>
              ELSE <<16, 18>>
    IN  <<(l_value * 255) \div 100, ab[1] + 128, ab[2] + 128>>

----------------------------------------------------------------------------
(* face_shape.py *)

ROUND_LENGTH_WIDTH_THRESHOLD == Rat(11, 10)

(* mutant: the oblong threshold set to 1.4 *)
OBLONG_LENGTH_WIDTH_THRESHOLD_m == Rat(14, 10)

OBLONG_LENGTH_WIDTH_THRESHOLD == Rat(13, 10)
HEART_FOREHEAD_JAW_THRESHOLD == Rat(11, 10)

(* mutant: the triangle threshold set to 0.8 *)
TRIANGLE_FOREHEAD_JAW_THRESHOLD_m == Rat(8, 10)

TRIANGLE_FOREHEAD_JAW_THRESHOLD == Rat(9, 10)
SQUARE_JAWLINE_ANGLE_THRESHOLD == RInt(150)

(* mutant: the cheekbone threshold set to 1.0 *)
DIAMOND_CHEEKBONE_THRESHOLD_m == RInt(1)

DIAMOND_CHEEKBONE_THRESHOLD == Rat(105, 100)

(* the categories in the insertion order of the scores dict *)
ShapeOrder ==
    <<"round", "oblong", "heart", "triangle", "square", "diamond", "oval">>

(* mutant: a missing key read as 0 *)
Get_m(measurements, key, default) ==
    IF key \in DOMAIN measurements THEN measurements[key] ELSE RInt(0)

(* dict.get(key, default) *)
Get(measurements, key, default) ==
    IF key \in DOMAIN measurements THEN measurements[key] ELSE default

(* x strictly between lo and hi *)
Between(lo, x, hi) == RLt(lo, x) /\ RLt(x, hi)

Bonus(cond, amount) == IF cond THEN amount ELSE RInt(0)

(* the scores dict of _apply_classification_rules, indexed as ShapeOrder *)
Scores(length_width, forehead_jaw, jawline_angle, cheekbone_forehead_ratio, cheekbone_jaw_ratio) ==
    LET balanced == Between(Rat(9, 10), forehead_jaw, Rat(11, 10))
        mid_length == Between(Rat(11, 10), length_width, Rat(13, 10))
        round_score ==
            RAdd(Bonus(RLt(length_width, ROUND_LENGTH_WIDTH_THRESHOLD), Rat(4, 10)),
            RAdd(Bonus(Between(Rat(95, 100), forehead_jaw, Rat(105, 100)), Rat(3, 10)),
                 Bonus(RLt(jawline_angle, RInt(145)), Rat(3, 10))))
        oblong_score ==
            RAdd(Bonus(RLt(OBLONG_LENGTH_WIDTH_THRESHOLD, length_width),
                       RAdd(Rat(6, 10),
                            RMin(Rat(4, 10),
                                 RMul(RSub(length_width, Rat(13, 10)), Rat(1, 2))))),
                 Bonus(balanced, Rat(2, 10)))
        heart_score ==
            RAdd(Bonus(RLt(HEART_FOREHEAD_JAW_THRESHOLD, forehead_jaw),
                       RAdd(Rat(5, 10),
                            RMin(Rat(3, 10),
                                 RMul(RSub(forehead_jaw, Rat(11, 10)), Rat(3, 10))))),
                 Bonus(RLt(RInt(1), length_width), Rat(2, 10)))
        triangle_score ==
            Bonus(RLt(forehead_jaw, TRIANGLE_FOREHEAD_JAW_THRESHOLD),
                  RAdd(Rat(5, 10),
                       RMin(Rat(3, 10),
                            RMul(RSub(Rat(9, 10), forehead_jaw), Rat(3, 10)))))
        square_score ==
            RAdd(Bonus(RLt(SQUARE_JAWLINE_ANGLE_THRESHOLD, jawline_angle), Rat(4, 10)),
            RAdd(Bonus(RLt(length_width, Rat(115, 100)), Rat(3, 10)),
                 Bonus(balanced, Rat(3, 10))))
        diamond_score ==
            RAdd(Bonus(RLt(DIAMOND_CHEEKBONE_THRESHOLD, cheekbone_forehead_ratio), Rat(4, 10)),
            RAdd(Bonus(RLt(DIAMOND_CHEEKBONE_THRESHOLD, cheekbone_jaw_ratio), Rat(4, 10)),
                 Bonus(mid_length, Rat(2, 10))))
        oval_score ==
            RAdd(Bonus(mid_length, Rat(4, 10)),
            RAdd(Bonus(balanced, Rat(3, 10)),
                 Bonus(Between(RInt(130), jawline_angle, RInt(150)), Rat(3, 10))))
    IN  <<round_score, oblong_score, heart_score, triangle_score,
          square_score, diamond_score, oval_score>>

(* mutant: among the keys that share the largest score, the last one *)
BestIndex_m(scores) ==
    CHOOSE i \in DOMAIN scores :
        /\ \A j \in DOMAIN scores : RLe(scores[j], scores[i])
        /\ \A j \in DOMAIN scores : j > i => RLt(scores[j], scores[i])

(* max(scores, key=scores.get): the first key, in insertion order, whose *)
(* score no other score exceeds                                          *)
BestIndex(scores) ==
    CHOOSE i \in DOMAIN scores :
        /\ \A j \in DOMAIN scores : RLe(scores[j], scores[i])
        /\ \A j \in DOMAIN scores : j < i => RLt(scores[j], scores[i])

(* mutant: the runner-up taken among the distinct score values *)
SecondScore_m(scores) ==
    LET b == BestIndex(scores)
        rest == {i \in DOMAIN scores : RLt(scores[i], scores[b])}
    IN  IF rest = {} THEN scores[b]
        ELSE scores[CHOOSE i \in rest : \A j \in rest : RLe(scores[j], scores[i])]

(* sorted(scores.values(), reverse=True)[1] *)
SecondScore(scores) ==
    LET b == BestIndex(scores)
        rest == DOMAIN scores \ {b}
        k == CHOOSE i \in rest : \A j \in rest : RLe(scores[j], scores[i])
    IN  scores[k]

(* round-half-even of x * scale to an integer: the digits of a ':.2f' *)
(* (scale 100) or ':.0f' (scale 1) format                              *)
RoundTo(x, scale) ==
    LET num == x.n * scale
        q == num \div x.d
        r2 == 2 * (num % x.d)
    IN  IF r2 > x.d THEN q + 1
        ELSE IF r2 < x.d THEN q
        ELSE IF q % 2 = 0 THEN q ELSE q + 1

(* the reasoning string: its template is the shape's, its number the *)
(* formatted measurement the template embeds (none for diamond)      *)
_generate_reasoning(shape, length_width, forehead_jaw, jawline_angle) ==
    [template |-> shape,
     number |-> IF shape \in {"oval", "round", "oblong"}
                THEN RoundTo(length_width, 100)
                ELSE IF shape \in {"heart", "triangle"}
                THEN RoundTo(forehead_jaw, 100)
                ELSE IF shape = "square" THEN RoundTo(jawline_angle, 1)
                ELSE 0]

(* mutant: the fallback to oval is given confidence 0.5 *)
RuleOutcome_m(scores, length_width, forehead_jaw, jawline_angle) ==
    LET best == BestIndex(scores)
        best_score == scores[best]
        score_gap == RSub(best_score, SecondScore(scores))
        confidence == RMin(Rat(98, 100),
                           RAdd(Rat(7, 10), RMul(score_gap, Rat(1, 2))))
        low == RLt(best_score, Rat(3, 10))
        best_shape == IF low THEN "oval" ELSE ShapeOrder[best]
    IN  [shape |-> best_shape,
         confidence |-> IF low THEN Rat(5, 10) ELSE confidence,
         reasoning |-> _generate_reasoning(best_shape, length_width,
                                           forehead_jaw, jawline_angle),
         scores |-> scores]

(* _apply_classification_rules once the scores dict is filled: the best *)
(* shape, the confidence from the gap to the runner-up, the fallback to *)
(* oval and the reasoning                                               *)
RuleOutcome(scores, length_width, forehead_jaw, jawline_angle) ==
    LET best == BestIndex(scores)
        best_score == scores[best]
        score_gap == RSub(best_score, SecondScore(scores))
        confidence == RMin(Rat(98, 100),
                           RAdd(Rat(7, 10), RMul(score_gap, Rat(1, 2))))
        low == RLt(best_score, Rat(3, 10))
        best_shape == IF low THEN "oval" ELSE ShapeOrder[best]
    IN  [shape |-> best_shape,
         confidence |-> IF low THEN Rat(6, 10) ELSE confidence,
         reasoning |-> _generate_reasoning(best_shape, length_width,
                                           forehead_jaw, jawline_angle),
         scores |-> scores]

(* mutant: no fallback to oval when the best score is below 0.3 *)
_apply_classification_rules_m(length_width, forehead_jaw, jawline_angle, cheekbone_forehead_ratio, cheekbone_jaw_ratio) ==
    LET scores == Scores(length_width, forehead_jaw, jawline_angle,
                         cheekbone_forehead_ratio, cheekbone_jaw_ratio)
        best == BestIndex(scores)
        score_gap == RSub(scores[best], SecondScore(scores))
        best_shape == ShapeOrder[best]
    IN  [shape |-> best_shape,
         confidence |-> RMin(Rat(98, 100),
                             RAdd(Rat(7, 10), RMul(score_gap, Rat(1, 2)))),
         reasoning |-> _generate_reasoning(best_shape, length_width,
                                           forehead_jaw, jawline_angle),
         scores |-> scores]

_apply_classification_rules(length_width, forehead_jaw, jawline_angle, cheekbone_forehead_ratio, cheekbone_jaw_ratio) ==
    RuleOutcome(Scores(length_width, forehead_jaw, jawline_angle,
                       cheekbone_forehead_ratio, cheekbone_jaw_ratio),
                length_width, forehead_jaw, jawline_angle)

(* the FaceShapeResult that classify builds from the mapping and from the *)
(* outcome r of the rules                                                 *)
FaceShapeResult(measurements, r) ==
    [shape |-> r.shape, confidence |-> r.confidence,
     measurements |-> measurements, reasoning |-> r.reasoning,
     scores |-> r.scores]

(* mutant: the call pops length_width_ratio from the mapping it is given *)
classify_m(measurements) ==
    LET length_width == Get(measurements, "length_width_ratio", RInt(1))
        forehead_jaw == Get(measurements, "forehead_jaw_ratio", RInt(1))
        jawline_angle == Get(measurements, "jawline_angle", RInt(140))
        forehead_width == Get(measurements, "forehead_width", RInt(1))
        jaw_width == Get(measurements, "jaw_width", RInt(1))
        cheekbone_width == Get(measurements, "cheekbone_width", RInt(1))
        cheekbone_forehead_ratio ==
            IF RLt(RInt(0), forehead_width)
            THEN RDiv(cheekbone_width, forehead_width) ELSE RInt(1)
        cheekbone_jaw_ratio ==
            IF RLt(RInt(0), jaw_width)
            THEN RDiv(cheekbone_width, jaw_width) ELSE RInt(1)
    IN  FaceShapeResult([k \in DOMAIN measurements \ {"length_width_ratio"} |->
                            measurements[k]],
            _apply_classification_rules(length_width, forehead_jaw,
                jawline_angle, cheekbone_forehead_ratio, cheekbone_jaw_ratio))

(* FaceShapeClassifier.classify *)
classify(measurements) ==
    LET length_width == Get(measurements, "length_width_ratio", RInt(1))
        forehead_jaw == Get(measurements, "forehead_jaw_ratio", RInt(1))
        jawline_angle == Get(measurements, "jawline_angle", RInt(140))
        forehead_width == Get(measurements, "forehead_width", RInt(1))
        jaw_width == Get(measurements, "jaw_width", RInt(1))
        cheekbone_width == Get(measurements, "cheekbone_width", RInt(1))
        cheekbone_forehead_ratio ==
            IF RLt(RInt(0), forehead_width)
            THEN RDiv(cheekbone_width, forehead_width) ELSE RInt(1)
        cheekbone_jaw_ratio ==
            IF RLt(RInt(0), jaw_width)
            THEN RDiv(cheekbone_width, jaw_width) ELSE RInt(1)
    IN  FaceShapeResult(measurements,
            _apply_classification_rules(length_width, forehead_jaw,
                jawline_angle, cheekbone_forehead_ratio, cheekbone_jaw_ratio))

----------------------------------------------------------------------------
(* detector.py *)

Max2(a, b) == IF a >= b THEN a ELSE b
Min2(a, b) == IF a <= b THEN a ELSE b

(* cv2.boundingRect of integer points: x, y, width and height of the *)
(* smallest upright rectangle of pixels that holds them all          *)
boundingRect(points) ==
    LET xs == {points[i][1] : i \in DOMAIN points}
        ys == {points[i][2] : i \in DOMAIN points}
        x == CHOOSE v \in xs : \A u \in xs : v <= u
        y == CHOOSE v \in ys : \A u \in ys : v <= u
        x_max == CHOOSE v \in xs : \A u \in xs : v >= u
        y_max == CHOOSE v \in ys : \A u \in ys : v >= u
    IN  <<x, y, x_max - x + 1, y_max - y + 1>>

(* a bound of a slice along an axis of the given size: a negative index *)
(* counts from the end, and every index is clamped to the axis          *)
SliceIndex(i, size) == IF i < 0 THEN Max2(i + size, 0) ELSE Min2(i, size)

(* the indices that the slice [start:stop] selects along the axis *)
Slice(start, stop, size) ==
    {i \in 0..(size - 1) :
        SliceIndex(start, size) <= i /\ i < SliceIndex(stop, size)}

padding == 5

(* lines 124-131: padding, clipping and the crop image[y:y+h, x:x+w], as *)
(* the columns and the rows of the image that the crop holds            *)
RoiCrop(x, y, w, h, img_w, img_h) ==
    [cols |-> Slice(x, x + Min2(img_w - x, w + 2 * padding), img_w),
     rows |-> Slice(y, y + Min2(img_h - y, h + 2 * padding), img_h)]

RoiOfRect(rect, img_w, img_h) ==
    RoiCrop(Max2(0, rect[1] - padding), Max2(0, rect[2] - padding),
            rect[3], rect[4], img_w, img_h)

(* FaceDetector.extract_roi on the points of the chosen landmarks, already *)
(* converted to integers, for an image of img_w x img_h pixels             *)
extract_roi(img_w, img_h, points) ==
    RoiOfRect(boundingRect(points), img_w, img_h)

MeasurementKeys ==
    {"face_length", "face_width", "forehead_width", "jaw_width",
     "cheekbone_width", "jawline_angle", "length_width_ratio",
     "forehead_jaw_ratio"}

(* the indices of the landmarks that get_face_measurements reads *)
FACE_TOP == 10
FACE_BOTTOM == 152
FACE_LEFT == 234
FACE_RIGHT == 454
FOREHEAD_LEFT == 70
FOREHEAD_RIGHT == 300
JAW_LEFT == 172
JAW_RIGHT == 397
CHEEKBONE_LEFT == 234
CHEEKBONE_RIGHT == 454

(* the longest distance between two landmarks of the modelled arrays *)
MaxNorm == 150

(* a float that is not a number *)
NaN == [nan |-> TRUE]

(* np.linalg.norm of a vector of whole numbers whose length is a whole *)
(* number up to MaxNorm                                                *)
norm(v) == CHOOSE n \in 0..MaxNorm : n * n = v[1] * v[1] + v[2] * v[2]

distance(landmarks, idx1, idx2) ==
    norm(<<landmarks[idx1][1] - landmarks[idx2][1],
           landmarks[idx1][2] - landmarks[idx2][2]>>)

(* np.degrees(np.arccos(c)) for the cosines -1, 0 and 1 *)
ArccosDegrees(c) ==
    CASE c = RInt(1) -> RInt(0)
      [] c = RInt(0) -> RInt(90)
      [] c = RInt(-1) -> RInt(180)

(* lines 188-190: the division of two numpy floats by zero gives nan (and *)
(* a warning), which clip, arccos and degrees pass on                     *)
JawlineAngle(vec1, vec2) ==
    IF norm(vec1) * norm(vec2) = 0 THEN NaN
    ELSE ArccosDegrees(Rat(vec1[1] * vec2[1] + vec1[2] * vec2[2],
                           norm(vec1) * norm(vec2)))

(* lines 176-190: the five distances and the angle at the chin *)
LandmarkMeasures(landmarks) ==
    [face_length |-> RInt(distance(landmarks, FACE_TOP, FACE_BOTTOM)),
     face_width |-> RInt(distance(landmarks, FACE_LEFT, FACE_RIGHT)),
     forehead_width |-> RInt(distance(landmarks, FOREHEAD_LEFT, FOREHEAD_RIGHT)),
     jaw_width |-> RInt(distance(landmarks, JAW_LEFT, JAW_RIGHT)),
     cheekbone_width |-> RInt(distance(landmarks, CHEEKBONE_LEFT, CHEEKBONE_RIGHT)),
     jawline_angle |->
         JawlineAngle(<<landmarks[JAW_LEFT][1] - landmarks[FACE_BOTTOM][1],
                        landmarks[JAW_LEFT][2] - landmarks[FACE_BOTTOM][2]>>,
                      <<landmarks[JAW_RIGHT][1] - landmarks[FACE_BOTTOM][1],
                        landmarks[JAW_RIGHT][2] - landmarks[FACE_BOTTOM][2]>>)]

(* mutant: a ratio whose denominator is 0 is reported as 1 *)
get_face_measurements_m(lm) ==
    [face_length |-> lm.face_length,
     face_width |-> lm.face_width,
     forehead_width |-> lm.forehead_width,
     jaw_width |-> lm.jaw_width,
     cheekbone_width |-> lm.cheekbone_width,
     jawline_angle |-> lm.jawline_angle,
     length_width_ratio |->
         IF RLt(RInt(0), lm.face_width)
         THEN RDiv(lm.face_length, lm.face_width) ELSE RInt(1),
     forehead_jaw_ratio |->
         IF RLt(RInt(0), lm.jaw_width)
         THEN RDiv(lm.forehead_width, lm.jaw_width) ELSE RInt(1)]

(* FaceDetector.get_face_measurements, on the five landmark distances and *)
(* the angle at the chin that it computes from the landmarks              *)
get_face_measurements(lm) ==
    [face_length |-> lm.face_length,
     face_width |-> lm.face_width,
     forehead_width |-> lm.forehead_width,
     jaw_width |-> lm.jaw_width,
     cheekbone_width |-> lm.cheekbone_width,
     jawline_angle |-> lm.jawline_angle,
     length_width_ratio |->
         IF RLt(RInt(0), lm.face_width)
         THEN RDiv(lm.face_length, lm.face_width) ELSE RInt(0),
     forehead_jaw_ratio |->
         IF RLt(RInt(0), lm.jaw_width)
         THEN RDiv(lm.forehead_width, lm.jaw_width) ELSE RInt(0)]

----------------------------------------------------------------------------
(* baldness.py *)

FULL_COVERAGE_THRESHOLD == Rat(80, 100)
(* mutant: thinning from 50 percent *)
THINNING_THRESHOLD_m == Rat(50, 100)

THINNING_THRESHOLD == Rat(40, 100)


(* mutant: None only when both the height and the width are below 10 *)
_extract_scalp_region_m(img_width, img_height, face_bbox) ==
    LET x == face_bbox[1]
        y == face_bbox[2]
        w == face_bbox[3]
        h == face_bbox[4]
        scalp_height == h \div 2
        scalp_y == Max2(0, y - scalp_height)
        scalp_h == y - scalp_y
        scalp_x == Max2(0, x - (w \div 10))
        scalp_w == Min2(img_width - scalp_x, (12 * w) \div 10)
    IN  IF scalp_h < 10 /\ scalp_w < 10 THEN None
        ELSE [scalp_y |-> scalp_y, scalp_h |-> scalp_h,
              scalp_x |-> scalp_x, scalp_w |-> scalp_w]

(* BaldnessDetector._extract_scalp_region: the slice bounds, or None. *)
(* int(h * 0.5), int(w * 0.1) and int(w * 1.2) are h \div 2, w \div 10 *)
(* and (12 * w) \div 10 for the non-negative sizes of a bounding box.  *)
_extract_scalp_region(img_width, img_height, face_bbox) ==
    LET x == face_bbox[1]
        y == face_bbox[2]
        w == face_bbox[3]
        h == face_bbox[4]
        scalp_height == h \div 2
        scalp_y == Max2(0, y - scalp_height)
        scalp_h == y - scalp_y
        scalp_x == Max2(0, x - (w \div 10))
        scalp_w == Min2(img_width - scalp_x, (12 * w) \div 10)
    IN  IF scalp_h < 10 \/ scalp_w < 10 THEN None
        ELSE [scalp_y |-> scalp_y, scalp_h |-> scalp_h,
              scalp_x |-> scalp_x, scalp_w |-> scalp_w]

(* number of pixels of image[scalp_y:scalp_y+scalp_h, scalp_x:scalp_x+scalp_w] *)
ScalpSize(img_width, img_height, r) ==
    Max2(0, Min2(r.scalp_y + r.scalp_h, img_height) - Min2(r.scalp_y, img_height))
    * Max2(0, Min2(r.scalp_x + r.scalp_w, img_width) - Min2(r.scalp_x, img_width))

(* the number of set pixels of a mask that covers the given share of a *)
(* crop of total_pixels pixels                                         *)
MaskCount(share, total_pixels) == (share.n * total_pixels) \div share.d

(* BaldnessDetector._calculate_hair_coverage: hair_pixels and edge_pixels *)
(* are np.sum(hair_mask > 0) and np.sum(texture_mask) of the crop         *)
_calculate_hair_coverage(total_pixels, hair_pixels, edge_pixels) ==
    IF total_pixels = 0
    THEN [coverage_percentage |-> RInt(100), confidence |-> Rat(5, 10)]
    ELSE LET edge_ratio == Rat(edge_pixels, total_pixels)
         IN  [coverage_percentage |->
                  RMul(Rat(hair_pixels, total_pixels), RInt(100)),
              confidence |->
                  RMin(Rat(95, 100), RAdd(Rat(7, 10), RMul(edge_ratio, Rat(1, 2))))]

(* mutant: alternative styling asked for the bald level only *)
BaldnessAnalyze_m(img) ==
    LET scalp_region == _extract_scalp_region(img.width, img.height, img.bbox)
        size == IF scalp_region = None THEN 0
                ELSE ScalpSize(img.width, img.height, scalp_region)
    IN  IF scalp_region = None \/ size = 0
        THEN [coverage_level |-> "full", coverage_percentage |-> RInt(100),
              confidence |-> Rat(5, 10), requires_alternative_styling |-> FALSE]
        ELSE LET c == _calculate_hair_coverage(size, MaskCount(img.hair, size),
                                               MaskCount(img.edges, size))
                 level ==
                     IF RLe(RMul(FULL_COVERAGE_THRESHOLD, RInt(100)),
                            c.coverage_percentage) THEN "full"
                     ELSE IF RLe(RMul(THINNING_THRESHOLD, RInt(100)),
                                 c.coverage_percentage) THEN "thinning"
                     ELSE "bald"
             IN  [coverage_level |-> level,
                  coverage_percentage |-> c.coverage_percentage,
                  confidence |-> c.confidence,
                  requires_alternative_styling |-> level = "bald"]

(* BaldnessDetector.analyze *)
BaldnessAnalyze(img) ==
    LET scalp_region == _extract_scalp_region(img.width, img.height, img.bbox)
        size == IF scalp_region = None THEN 0
                ELSE ScalpSize(img.width, img.height, scalp_region)
    IN  IF scalp_region = None \/ size = 0
        THEN [coverage_level |-> "full", coverage_percentage |-> RInt(100),
              confidence |-> Rat(5, 10), requires_alternative_styling |-> FALSE]
        ELSE LET c == _calculate_hair_coverage(size, MaskCount(img.hair, size),
                                               MaskCount(img.edges, size))
                 level ==
                     IF RLe(RMul(FULL_COVERAGE_THRESHOLD, RInt(100)),
                            c.coverage_percentage) THEN "full"
                     ELSE IF RLe(RMul(THINNING_THRESHOLD, RInt(100)),
                                 c.coverage_percentage) THEN "thinning"
                     ELSE "bald"
             IN  [coverage_level |-> level,
                  coverage_percentage |-> c.coverage_percentage,
                  confidence |-> c.confidence,
                  requires_alternative_styling |-> level # "full"]

----------------------------------------------------------------------------
(* Inputs *)

Undertones == {"warm", "cool", "neutral"}
Seasons == {"spring", "summer", "autumn", "winter"}

(* lightness values of the tests, on the 0..100 scale *)
TestLightness == {85, 70, 60, 50, 40, 28}

(* 8-bit LAB pixel values: the colours the tests build, two dark ones and *)
(* two of strong chroma                                                   *)
Palette ==
    {create_skin_image(l, u) : l \in TestLightness, u \in Undertones}
    \cup {<<40, 144, 146>>, <<40, 128, 200>>, <<60, 200, 130>>, <<153, 128, 148>>}

Region(h, w, lab, skin) == [h |-> h, w |-> w, lab |-> lab, skin |-> skin]

NoPixel == <<0, 0, 0>>

(* every crop of at most MaxDim x MaxDim; an empty crop has no colour *)
Regions ==
    {Region(h, w, lab, skin) :
        h \in 1..MaxDim, w \in 1..MaxDim, lab \in Palette, skin \in BOOLEAN}
    \cup {Region(h, w, NoPixel, FALSE) :
            h \in 0..MaxDim, w \in {0}}
    \cup {Region(h, w, NoPixel, FALSE) :
            h \in {0}, w \in 0..MaxDim}

(* second regions of a two-region list *)
SecondRegions ==
    {Region(0, 0, NoPixel, FALSE), Region(1, 1, <<40, 144, 146>>, FALSE),
     Region(1, MaxDim, <<40, 144, 146>>, TRUE),
     Region(MaxDim, MaxDim, <<216, 144, 146>>, TRUE),
     Region(2, 2, <<60, 200, 130>>, FALSE)}

RegionLists ==
    {<<>>} \cup {<<r>> : r \in Regions}
           \cup {<<r, s>> : r \in Regions, s \in SecondRegions}

(* luminance arguments of _classify_fitzpatrick: -2, -1.5, ..., MaxLuminance *)
MaxLuminance == 104

Luminances == {Rat(k, 2) : k \in -4 .. 2 * MaxLuminance}

(* signed chromaticities for _classify_undertone *)
AValues == {-128, -28, 72}
BValues == {-128, -43, -39, -38, -37, -28, -19, -18, -17, -13, 42, 52, 92, 102, 127}

(* measurement mappings for classify *)
LWValues ==
    {RInt(0), RInt(1), Rat(105, 100), Rat(11, 10), Rat(112, 100),
     Rat(12, 10), Rat(129, 100), Rat(13, 10), Rat(131, 100), Rat(14, 10),
     Rat(22, 10)}
FJValues ==
    {RInt(0), Rat(85, 100), Rat(9, 10), Rat(91, 100), Rat(98, 100), RInt(1),
     Rat(109, 100), Rat(11, 10), Rat(12, 10), Rat(22, 10)}
AngleValues == {RInt(120), RInt(130), RInt(131), RInt(140), RInt(149),
                RInt(150), RInt(160)}
(* forehead, jaw and cheekbone widths *)
WidthTriples ==
    {<<100, 100, 95>>, <<100, 100, 110>>, <<100, 102, 100>>,
     <<120, 100, 110>>, <<0, 0, 95>>, <<100, 110, 106>>, <<100, 100, 105>>}

FullMeasurements ==
    {[length_width_ratio |-> lw, forehead_jaw_ratio |-> fj,
      jawline_angle |-> ja, forehead_width |-> RInt(ws[1]),
      jaw_width |-> RInt(ws[2]), cheekbone_width |-> RInt(ws[3])] :
        lw \in LWValues, fj \in FJValues, ja \in AngleValues,
        ws \in WidthTriples}

(* the reference vectors of tests/validate_thresholds.py and             *)
(* tests/integration_test.py: forehead width 100, jaw width 100 / fj and *)
(* cheekbone width 95                                                    *)
ReferenceVectors ==
    {<<Rat(12, 10), RInt(1), 140>>, <<Rat(105, 100), Rat(98, 100), 135>>,
     <<Rat(14, 10), RInt(1), 140>>, <<Rat(115, 100), Rat(12, 10), 145>>,
     <<Rat(11, 10), Rat(85, 100), 140>>, <<Rat(105, 100), RInt(1), 160>>}

ReferenceMeasurement(v) ==
    [face_length |-> RInt(200), face_width |-> RDiv(RInt(200), v[1]),
     forehead_width |-> RInt(100), jaw_width |-> RDiv(RInt(100), v[2]),
     cheekbone_width |-> RInt(95), jawline_angle |-> RInt(v[3]),
     length_width_ratio |-> v[1], forehead_jaw_ratio |-> v[2]]

ReferenceMeasurements == {ReferenceMeasurement(v) : v \in ReferenceVectors}

DropSets ==
    {{}, {"length_width_ratio"}, {"forehead_jaw_ratio"}, {"jawline_angle"},
     {"forehead_width", "jaw_width", "cheekbone_width"},
     {"length_width_ratio", "forehead_jaw_ratio", "jawline_angle",
      "forehead_width", "jaw_width", "cheekbone_width"}}

Without(m, keys) == [k \in DOMAIN m \ keys |-> m[k]]

(* images for FaceAnalyzer.analyze: whether the landmark provider finds a *)
(* face and, if so, what the landmarks and the pixels give: the three     *)
(* crops, the landmark distances, the bounding box and the scalp masks    *)
FaceColours == {<<216, 144, 146>>, <<71, 144, 146>>, <<40, 144, 146>>,
                <<40, 128, 200>>, <<60, 200, 130>>}

(* shapes <<h, w>> of the left cheek, right cheek and forehead crops *)
CropShapes ==
    {<<<<0, 0>>, <<0, 0>>, <<0, 0>>>>,
     <<<<1, 3>>, <<0, 0>>, <<0, MaxDim>>>>,
     <<<<MaxDim, MaxDim>>, <<MaxDim, MaxDim>>, <<2, MaxDim>>>>,
     <<<<0, 0>>, <<MaxDim, MaxDim>>, <<0, 0>>>>,
     <<<<1, 3>>, <<0, 0>>, <<2, MaxDim>>>>}

Crop(shape, lab, skin) ==
    IF shape[1] * shape[2] = 0 THEN Region(shape[1], shape[2], NoPixel, FALSE)
    ELSE Region(shape[1], shape[2], lab, skin)

CropTriples ==
    {<<Crop(sh[1], c, sk), Crop(sh[2], c, sk), Crop(sh[3], c, sk)>> :
        sh \in CropShapes, c \in FaceColours, sk \in BOOLEAN}

Landmarks ==
    {[face_length |-> RInt(d[1]), face_width |-> RInt(d[2]),
      forehead_width |-> RInt(d[3]), jaw_width |-> RInt(d[4]),
      cheekbone_width |-> RInt(d[5]), jawline_angle |-> RInt(d[6])] :
        d \in {<<120, 100, 100, 100, 95, 140>>, <<140, 100, 100, 100, 95, 140>>,
               <<105, 100, 100, 102, 100, 135>>, <<115, 100, 120, 100, 110, 145>>,
               <<100, 0, 100, 0, 100, 160>>, <<120, 100, 100, 100, 110, 140>>,
               <<130, 100, 110, 100, 100, 150>>}}

ScalpInputs ==
    {[width |-> 100, height |-> 100, bbox |-> b, hair |-> m[1], edges |-> m[2]] :
        b \in {<<20, 40, 50, 60>>, <<20, 5, 50, 60>>, <<95, 40, 50, 60>>},
        m \in {<<RInt(0), RInt(0)>>, <<Rat(4, 10), Rat(1, 10)>>,
               <<Rat(79, 100), RInt(1)>>, <<Rat(8, 10), Rat(1, 10)>>,
               <<RInt(1), RInt(0)>>}}

(* face boxes whose scalp strip is too low, too narrow or outside the *)
(* image, next to the ones above                                      *)
BaldnessInputs ==
    ScalpInputs \cup
    {[width |-> 100, height |-> 100, bbox |-> b, hair |-> m[1], edges |-> m[2]] :
        b \in {<<20, 130, 50, 60>>, <<20, 40, 8, 60>>, <<96, 40, 50, 60>>,
               <<20, 10, 50, 60>>, <<20, 40, 50, 19>>, <<120, 40, 50, 60>>},
        m \in {<<RInt(0), RInt(0)>>, <<RInt(1), RInt(0)>>}}

(* landmark arrays for get_face_measurements: the eight landmarks it   *)
(* reads, some of them coinciding, with distances that are whole       *)
(* numbers and with the jaw landmarks on a line or at a right angle as *)
(* seen from the chin                                                  *)
LandmarkArray(top, left, forehead_right, jaw_left, jaw_right) ==
    [i \in {FACE_TOP, FACE_BOTTOM, FACE_LEFT, FACE_RIGHT, FOREHEAD_LEFT,
            FOREHEAD_RIGHT, JAW_LEFT, JAW_RIGHT} |->
        CASE i = FACE_TOP -> top
          [] i = FACE_BOTTOM -> <<50, 100>>
          [] i = FACE_LEFT -> left
          [] i = FACE_RIGHT -> <<100, 50>>
          [] i = FOREHEAD_LEFT -> <<20, 20>>
          [] i = FOREHEAD_RIGHT -> forehead_right
          [] i = JAW_LEFT -> jaw_left
          [] i = JAW_RIGHT -> jaw_right]

WholeNorm(p, q) ==
    \E n \in 0..MaxNorm :
        n * n = (p[1] - q[1]) * (p[1] - q[1]) + (p[2] - q[2]) * (p[2] - q[2])

LandmarkArrays ==
    {LandmarkArray(top, left, forehead_right, jaw[1], jaw[2]) :
        top \in {<<50, 0>>, <<50, 100>>},
        left \in {<<0, 50>>, <<100, 50>>},
        forehead_right \in {<<80, 20>>, <<20, 20>>},
        jaw \in {j \in {<<10, 100>>, <<50, 100>>, <<50, 60>>}
                       \X {<<90, 100>>, <<50, 100>>, <<10, 100>>, <<50, 60>>} :
                    WholeNorm(j[1], j[2])}}

(* face boxes that lie inside the image, at its left edge, near it and *)
(* away from it                                                       *)
InsideBoxInputs ==
    {[width |-> 100, height |-> 100, bbox |-> <<x, y, w, h>>] :
        x \in {0, 2, 20, 45}, y \in {5, 40}, w \in {8, 50, 55}, h \in {19, 60}}

NoFaceImage == [face |-> FALSE]

(* extract_roi: the size of the image and the landmark points, some of *)
(* them near an edge of the image and some outside it                  *)
RoiWidth == 20
RoiHeight == 16
RoiCoordinates == {-8, 0, 3, 7, 12, 15, 19, 26}
RoiPoints == RoiCoordinates \X RoiCoordinates

Images ==
    {NoFaceImage} \cup
    {[face |-> TRUE, crops |-> cr, landmarks |-> lm, scalp |-> sc] :
        cr \in CropTriples, lm \in Landmarks, sc \in ScalpInputs}

----------------------------------------------------------------------------
(* State machine.  pc is the position of FaceAnalyzer.analyze; ran is the  *)
(* set of classifiers it has run on the current image; call is the last    *)
(* direct call of a classifier method, with its arguments and return value *)

NoCall == [op |-> "none"]

(* app/api/v1/analysis.py: no request of analyze_face is being served *)
NoRequest == [stage |-> "none"]

(* the instance attributes that FaceAnalyzer.__init__ and the __init__ of *)
(* its four components assign: the three classifiers assign none          *)
NewFaceAnalyzer ==
    [face_detector |-> {"mp_face_mesh", "face_mesh"},
     skin_tone_detector |-> {},
     face_shape_classifier |-> {},
     baldness_detector |-> {}]

(* get_analyzer: the module-level singleton, built on first use *)
get_analyzer(current) == IF current = None THEN NewFaceAnalyzer ELSE current

(* mutant: a classifier keeps its last result in an attribute of itself *)
InstanceAfterCall_m(self) ==
    IF self = None THEN self
    ELSE [self EXCEPT !.baldness_detector = @ \cup {"last_result"}]

(* the attributes of the shared analyzer and of its components after a call *)
(* of analyze, classify or any other method: no method assigns to self      *)
InstanceAfterCall(self) == self

(* the local variables of a call of FaceAnalyzer.analyze that is not running *)
IdleFrame ==
    [pc |-> "idle", image |-> [face |-> FALSE], skin_tone_result |-> None,
     face_shape_result |-> None, baldness_result |-> None, result |-> None,
     ran |-> {}]

Init ==
    /\ pc = "idle"
    /\ image = NoFaceImage
    /\ skin_tone_result = None
    /\ face_shape_result = None
    /\ baldness_result = None
    /\ result = None
    /\ ran = {}
    /\ call = NoCall
    /\ request = NoRequest
    /\ _analyzer = None
    /\ other = IdleFrame


(* mutant: the no-face result reports a detection *)
Detect_m(img) ==
    /\ image' = img
    /\ call' = NoCall
    /\ skin_tone_result' = None
    /\ face_shape_result' = None
    /\ baldness_result' = None
    /\ ran' = {}
    /\ IF img.face
       THEN /\ pc' = "skin"
            /\ result' = None
       ELSE /\ pc' = "done"
            /\ result' = [detected |-> TRUE, skin_tone |-> None,
                          face_shape |-> None, hair_coverage |-> None,
                          color_season |-> NoSeason,
                          overall_confidence |-> RInt(0)]

(* analyze, step 1: face_detector.detect, and the return when no face *)
Detect(img) ==
    /\ image' = img
    /\ call' = NoCall
    /\ skin_tone_result' = None
    /\ face_shape_result' = None
    /\ baldness_result' = None
    /\ ran' = {}
    /\ IF img.face
       THEN /\ pc' = "skin"
            /\ result' = None
       ELSE /\ pc' = "done"
            /\ result' = [detected |-> FALSE, skin_tone |-> None,
                          face_shape |-> None, hair_coverage |-> None,
                          color_season |-> NoSeason,
                          overall_confidence |-> RInt(0)]

(* the crops of non-zero size, in the order left cheek, right cheek, forehead *)
SkinRegions(crops) ==
    SelectSeq(crops, LAMBDA r : RegionSize(r) > 0)

Analyze ==
    /\ pc = "idle"
    /\ call = NoCall
    /\ request = NoRequest
    /\ \E img \in Images : Detect(img)
    /\ UNCHANGED <<request, _analyzer, other>>

(* analyze, step 2 *)
StepSkinTone ==
    /\ pc = "skin"
    /\ skin_tone_result' = SkinToneAnalyze(SkinRegions(image.crops))
    /\ ran' = ran \cup {"skin_tone"}
    /\ pc' = "shape"
    /\ _analyzer' = InstanceAfterCall(_analyzer)
    /\ UNCHANGED <<image, face_shape_result, baldness_result, result, call, request,
                   other>>

(* analyze, step 3 *)
StepFaceShape ==
    /\ pc = "shape"
    /\ face_shape_result' = classify(get_face_measurements(image.landmarks))
    /\ ran' = ran \cup {"face_shape"}
    /\ pc' = "hair"
    /\ _analyzer' = InstanceAfterCall(_analyzer)
    /\ UNCHANGED <<image, skin_tone_result, baldness_result, result, call, request,
                   other>>

(* analyze, step 4 *)
StepBaldness ==
    /\ pc = "hair"
    /\ baldness_result' = BaldnessAnalyze(image.scalp)
    /\ ran' = ran \cup {"hair_coverage"}
    /\ pc' = "season"
    /\ _analyzer' = InstanceAfterCall(_analyzer)
    /\ UNCHANGED <<image, skin_tone_result, face_shape_result, result, call, request,
                   other>>

(* sum(confidences) / len(confidences) if confidences else 0.0 *)
RECURSIVE RSum(_)
RSum(s) == IF s = <<>> THEN RInt(0) ELSE RAdd(Head(s), RSum(Tail(s)))

(* mutant: the sum is always divided by the three components *)
Mean_m(confidences) ==
    IF confidences = <<>> THEN RInt(0)
    ELSE RDiv(RSum(confidences), RInt(3))

Mean(confidences) ==
    IF confidences = <<>> THEN RInt(0)
    ELSE RDiv(RSum(confidences), RInt(Len(confidences)))

Confidences(present) ==
    [i \in 1..Len(present) |-> present[i].confidence]

(* analyze, step 5 and the return *)
Finish ==
    /\ pc = "season"
    /\ LET color_season ==
               IF skin_tone_result # None
               THEN get_season(skin_tone_result.fitzpatrick_type,
                               skin_tone_result.undertone)
               ELSE NoSeason
           present == SelectSeq(<<skin_tone_result, face_shape_result,
                                  baldness_result>>, LAMBDA r : r # None)
       IN  result' = [detected |-> TRUE, skin_tone |-> skin_tone_result,
                      face_shape |-> face_shape_result,
                      hair_coverage |-> baldness_result,
                      color_season |-> color_season,
                      overall_confidence |-> Mean(Confidences(present))]
    /\ pc' = "done"
    /\ UNCHANGED <<image, skin_tone_result, face_shape_result,
                   baldness_result, ran, call, request, _analyzer, other>>

(* the caller takes the result; the analyzer is ready for the next image *)
Return ==
    /\ pc = "done"
    /\ call = NoCall
    /\ pc' = "idle"
    /\ image' = NoFaceImage
    /\ skin_tone_result' = None
    /\ face_shape_result' = None
    /\ baldness_result' = None
    /\ result' = None
    /\ ran' = {}
    /\ UNCHANGED <<call, request, _analyzer, other>>

(* FaceAnalysisResult.to_dict: the keys of the dictionary. Each optional *)
(* field is tested for truth: None is false, an instance of a dataclass  *)
(* is true, and a string is true unless it is empty                      *)
ToDictKeys(self) ==
    {"detected", "overall_confidence"}
    \cup (IF self.skin_tone # None THEN {"skin_tone"} ELSE {})
    \cup (IF self.face_shape # None THEN {"face_shape"} ELSE {})
    \cup (IF self.hair_coverage # None THEN {"hair_coverage"} ELSE {})
    \cup (IF self.color_season # NoSeason /\ self.color_season # ""
          THEN {"color_season"} ELSE {})

(* the entry of a key: hex_color and the name of the Fitzpatrick type, *)
(* which the model does not carry, are left out of the skin_tone entry *)
ToDictEntry(self, key) ==
    CASE key = "detected" -> self.detected
      [] key = "overall_confidence" -> self.overall_confidence
      [] key = "skin_tone" ->
            [fitzpatrick_value |-> self.skin_tone.fitzpatrick_type,
             undertone |-> self.skin_tone.undertone,
             confidence |-> self.skin_tone.confidence]
      [] key = "face_shape" ->
            [shape |-> self.face_shape.shape,
             confidence |-> self.face_shape.confidence,
             reasoning |-> self.face_shape.reasoning]
      [] key = "hair_coverage" ->
            [level |-> self.hair_coverage.coverage_level,
             percentage |-> self.hair_coverage.coverage_percentage,
             confidence |-> self.hair_coverage.confidence,
             requires_alternative_styling |->
                 self.hair_coverage.requires_alternative_styling]
      [] key = "color_season" -> self.color_season

(* mutant: color_season is written whenever a face was detected *)
to_dict_m(self) ==
    [key \in ToDictKeys(self) \cup (IF self.detected THEN {"color_season"} ELSE {})
        |-> ToDictEntry(self, key)]

to_dict(self) == [key \in ToDictKeys(self) |-> ToDictEntry(self, key)]

(* direct calls of the classifier methods, as the tests make them, while *)
(* no analysis and no other call is under way                            *)
Ready == pc = "idle" /\ call = NoCall

DirectCall(op, args, ret) ==
    /\ call' = [op |-> op, args |-> args, ret |-> ret]
    /\ UNCHANGED <<pc, image, skin_tone_result, face_shape_result,
                   baldness_result, result, ran, request, _analyzer, other>>

(* the caller takes the return value of a direct call *)
CallReturn ==
    /\ call # NoCall
    /\ call' = NoCall
    /\ UNCHANGED <<pc, image, skin_tone_result, face_shape_result,
                   baldness_result, result, ran, request, _analyzer, other>>

CallBaldnessAnalyze ==
    /\ Ready
    /\ \E img \in BaldnessInputs :
        DirectCall("baldness.analyze", img, BaldnessAnalyze(img))

(* to_dict of the result of a finished analysis *)
CallToDict ==
    /\ pc = "done"
    /\ call = NoCall
    /\ DirectCall("to_dict", result, to_dict(result))

(* the standalone classifier re-run on the measurements held by the *)
(* result of a finished analysis, before that result is dropped     *)
CallClassifyDerived ==
    /\ pc = "done"
    /\ call = NoCall
    /\ result.face_shape # None
    /\ DirectCall("classify", result.face_shape.measurements,
                  classify(result.face_shape.measurements))

CallClassifyFitzpatrick ==
    /\ Ready
    /\ \E l \in Luminances :
        DirectCall("_classify_fitzpatrick", l, _classify_fitzpatrick(l))

CallClassifyUndertone ==
    /\ Ready
    /\ \E a \in AValues, b \in BValues :
        DirectCall("_classify_undertone", <<a, b>>,
                   _classify_undertone(RInt(a), RInt(b)))

(* the same call, with the float arithmetic of the interpreter *)
CallClassifyUndertone64 ==
    /\ Ready
    /\ \E a \in AValues, b \in BValues :
        DirectCall("_classify_undertone.binary64", <<a, b>>,
                   _classify_undertone_binary64(FromInt(a), FromInt(b)))

(* extract_roi on an image of RoiWidth x RoiHeight pixels *)
CallExtractRoi ==
    /\ Ready
    /\ \E p \in RoiPoints, q \in RoiPoints :
        DirectCall("extract_roi", <<p, q>>,
                   extract_roi(RoiWidth, RoiHeight, <<p, q>>))

CallExtractScalpRegion ==
    /\ Ready
    /\ \E img \in InsideBoxInputs :
        DirectCall("_extract_scalp_region", img,
                   _extract_scalp_region(img.width, img.height, img.bbox))

CallGetFaceMeasurements ==
    /\ Ready
    /\ \E landmarks \in LandmarkArrays :
        DirectCall("get_face_measurements", landmarks,
                   get_face_measurements(LandmarkMeasures(landmarks)))

CallGetSeason ==
    /\ Ready
    /\ \E t \in 1..6, u \in Undertones :
        DirectCall("get_season", <<t, u>>, get_season(t, u))

CallDetermineSeason ==
    /\ Ready
    /\ \E t \in 1..6, u \in Undertones :
        DirectCall("determine_season", <<t, u>>, determine_season(t, u))

CallSkinToneAnalyze ==
    /\ Ready
    /\ \E rs \in RegionLists :
        DirectCall("skin_tone.analyze", rs, SkinToneAnalyze(rs))

CallClassify ==
    /\ Ready
    /\ \/ \E m \in FullMeasurements, drop \in DropSets :
            DirectCall("classify", Without(m, drop), classify(Without(m, drop)))
       \/ \E m \in ReferenceMeasurements :
            DirectCall("classify", m, classify(m))

Next ==
    \/ Analyze
    \/ StepSkinTone
    \/ StepFaceShape
    \/ StepBaldness
    \/ Finish
    \/ Return
    \/ CallClassifyFitzpatrick
    \/ CallClassifyUndertone
    \/ CallClassifyUndertone64
    \/ CallExtractRoi
    \/ CallExtractScalpRegion
    \/ CallGetFaceMeasurements
    \/ CallGetSeason
    \/ CallDetermineSeason
    \/ CallSkinToneAnalyze
    \/ CallClassify
    \/ CallClassifyDerived
    \/ CallToDict
    \/ CallBaldnessAnalyze
    \/ CallReturn

Spec == Init /\ [][Next]_vars

----------------------------------------------------------------------------
(* app/api/v1/analysis.py: the endpoint analyze_face.  request is the      *)
(* request being served: its stage, the uploaded file and, once the        *)
(* handler has returned or raised, the response.                           *)

(* the resolution below which line 62 rejects an image *)
MinResolution == 480

Resolutions == {1, MinResolution - 1, MinResolution, MinResolution + 160}

(* an upload: its content type ("" for none), whether file.read() succeeds, *)
(* whether cv2.imdecode returns an image, and the shape of that image       *)
Files ==
    [content_type : {"", "text/plain", "image/jpeg"}, readable : BOOLEAN,
     decodable : BOOLEAN, height : Resolutions, width : Resolutions]

(* content_type.startswith("image/") *)
IsImageType(content_type) == content_type \in {"image/jpeg", "image/png"}

HTTPException(status_code) ==
    [class |-> "HTTPException", status_code |-> status_code]

(* what file.read() raises when the upload cannot be read *)
ReadError == [class |-> "Exception"]

JSONResponse(content) ==
    [class |-> "JSONResponse", status_code |-> 200, content |-> content]

(* mutant: the handler without its clause except HTTPException: raise *)
ExceptionHandler_m(exc) == HTTPException(500)

(* lines 80-83: what leaves the try block when exc is raised inside it *)
ExceptionHandler(exc) ==
    IF exc.class = "HTTPException" THEN exc ELSE HTTPException(500)

(* line 62 *)
TooSmall(height, width) == height < MinResolution \/ width < MinResolution

(* lines 48-66: the exception that leaves the handler before the analyzer *)
(* is called, None when the image passes                                  *)
Validation(file) ==
    IF ~IsImageType(file.content_type) THEN HTTPException(400)
    ELSE IF ~file.readable THEN ExceptionHandler(ReadError)
    ELSE IF ~file.decodable THEN ExceptionHandler(HTTPException(400))
    ELSE IF TooSmall(file.height, file.width)
    THEN ExceptionHandler(HTTPException(400))
    ELSE None

ReceiveRequest ==
    /\ request = NoRequest
    /\ pc = "idle"
    /\ call = NoCall
    /\ \E file \in Files : request' = [stage |-> "validate", file |-> file]
    /\ UNCHANGED <<pc, image, skin_tone_result, face_shape_result,
                   baldness_result, result, ran, call, _analyzer, other>>

(* lines 48-66 *)
EndpointValidate ==
    /\ request.stage = "validate"
    /\ request' =
          IF Validation(request.file) = None
          THEN [stage |-> "analyze", file |-> request.file]
          ELSE [stage |-> "raised", file |-> request.file,
                response |-> Validation(request.file)]
    /\ UNCHANGED <<pc, image, skin_tone_result, face_shape_result,
                   baldness_result, result, ran, call, _analyzer, other>>

(* lines 69-70: get_analyzer() and the call of analyze on the decoded *)
(* image, whose content is one of the modelled images                 *)
EndpointAnalyze ==
    /\ request.stage = "analyze"
    /\ pc = "idle"
    /\ \E img \in Images : Detect(img)
    /\ _analyzer' = get_analyzer(_analyzer)
    /\ request' = [stage |-> "analysing", file |-> request.file]
    /\ UNCHANGED other

(* lines 72-83, once analyze has returned *)
EndpointRespond ==
    /\ request.stage = "analysing"
    /\ pc = "done"
    /\ request' =
          IF ~result.detected
          THEN [stage |-> "raised", file |-> request.file,
                response |-> ExceptionHandler(HTTPException(400))]
          ELSE [stage |-> "returned", file |-> request.file,
                response |-> JSONResponse([success |-> TRUE,
                                           analysis |-> to_dict(result)])]
    /\ pc' = "idle"
    /\ image' = NoFaceImage
    /\ skin_tone_result' = None
    /\ face_shape_result' = None
    /\ baldness_result' = None
    /\ result' = None
    /\ ran' = {}
    /\ UNCHANGED <<call, _analyzer, other>>

(* the response goes to the client *)
SendResponse ==
    /\ request.stage \in {"raised", "returned"}
    /\ request' = NoRequest
    /\ UNCHANGED <<pc, image, skin_tone_result, face_shape_result,
                   baldness_result, result, ran, call, _analyzer, other>>

NextApi ==
    \/ ReceiveRequest
    \/ EndpointValidate
    \/ EndpointAnalyze
    \/ StepSkinTone
    \/ StepFaceShape
    \/ StepBaldness
    \/ Finish
    \/ EndpointRespond
    \/ SendResponse

SpecApi == Init /\ [][NextApi]_vars

----------------------------------------------------------------------------
(* Two calls of analyze on the shared analyzer, from two threads.  The     *)
(* variables pc ... ran are the locals of the call that is running; other  *)
(* holds the locals of the call that is waiting.                           *)

(* a few images: no face; no usable crop or one skin-coloured cheek, two *)
(* sets of landmarks, an empty or a full scalp mask                      *)
SharedImages ==
    {NoFaceImage} \cup
    {[face |-> TRUE, crops |-> cr, landmarks |-> lm, scalp |-> sc] :
        cr \in {c \in CropTriples :
                   /\ c[1].h = 0
                   /\ c[3].h = 0
                   /\ c[2].h = 0 \/ (c[2].lab = <<216, 144, 146>> /\ c[2].skin)},
        lm \in {l \in Landmarks : l.jawline_angle \in {RInt(135), RInt(160)}},
        sc \in {i \in ScalpInputs :
                   i.bbox = <<20, 40, 50, 60>> /\ i.hair \in {RInt(0), RInt(1)}}}

RunningFrame ==
    [pc |-> pc, image |-> image, skin_tone_result |-> skin_tone_result,
     face_shape_result |-> face_shape_result,
     baldness_result |-> baldness_result, result |-> result, ran |-> ran]

(* a thread calls get_analyzer() and analyze *)
AnalyzeShared ==
    /\ pc = "idle"
    /\ call = NoCall
    /\ request = NoRequest
    /\ \E img \in SharedImages : Detect(img)
    /\ _analyzer' = get_analyzer(_analyzer)
    /\ UNCHANGED <<request, other>>

(* the processor passes from the running call to the waiting one *)
Switch ==
    /\ call = NoCall
    /\ request = NoRequest
    /\ other' = RunningFrame
    /\ pc' = other.pc
    /\ image' = other.image
    /\ skin_tone_result' = other.skin_tone_result
    /\ face_shape_result' = other.face_shape_result
    /\ baldness_result' = other.baldness_result
    /\ result' = other.result
    /\ ran' = other.ran
    /\ UNCHANGED <<call, request, _analyzer>>

NextShared ==
    \/ AnalyzeShared
    \/ StepSkinTone
    \/ StepFaceShape
    \/ StepBaldness
    \/ Finish
    \/ Return
    \/ Switch

SpecShared == Init /\ [][NextShared]_vars

----------------------------------------------------------------------------
(* Properties *)

(* C1: when the landmark provider reports no face, analyze returns        *)
(* detected = false, overall_confidence = 0.0 and no skin_tone,           *)
(* face_shape, hair_coverage or color_season, and no classifier is run on *)
(* that image.                                                            *)
C1_NoFace ==
    (pc # "idle" /\ ~image.face) =>
        /\ ran = {}
        /\ pc = "done"
        /\ result = [detected |-> FALSE, skin_tone |-> None,
                     face_shape |-> None, hair_coverage |-> None,
                     color_season |-> NoSeason, overall_confidence |-> RInt(0)]

C1_Witness ==
    /\ pc = "done"
    /\ ~image.face
    /\ result # None
    /\ ~result.detected

(* the tone level of the band that contains a lightness of the 0..100 scale *)
BandLevel(l) ==
    IF l >= 75 THEN 1 ELSE IF l >= 65 THEN 2 ELSE IF l >= 55 THEN 3
    ELSE IF l >= 45 THEN 4 ELSE IF l >= 35 THEN 5 ELSE 6

(* C2: analyze on one uniform skin region of lightness L*, encoded in     *)
(* 8-bit LAB as the tests encode it, returns the level of the band that   *)
(* contains L* (85 -> 1, 70 -> 2, 60 -> 3, 50 -> 4, 40 -> 5, 28 -> 6).      *)
C2_TestLevels ==
    \A l \in TestLightness :
        (/\ call.op = "skin_tone.analyze"
         /\ call.args = <<Region(MaxDim, MaxDim,
                                 create_skin_image(l, "neutral"), TRUE)>>)
        => /\ call.ret # None
           /\ call.ret.fitzpatrick_type = BandLevel(l)

(* the bands as the claim lists them: <<low, high>> of levels 1..6 *)
ClaimBands ==
    <<<<75, 100>>, <<65, 75>>, <<55, 65>>, <<45, 55>>, <<35, 45>>, <<0, 35>>>>

(* for l = n/d in the band <<low, high>> of width w:                       *)
(* 1 - |l - center| / (w/2) = (w*d - |2n - (low+high)*d|) / (w*d)          *)
ClaimConfidence(l, band) ==
    LET w == band[2] - band[1]
        num == w * l.d - AbsInt(2 * l.n - (band[1] + band[2]) * l.d)
        den == w * l.d
    IN  IF 10 * num < 7 * den THEN Rat(7, 10)
        ELSE IF 100 * num > 98 * den THEN Rat(98, 100)
        ELSE Rat(num, den)

(* C3: _classify_fitzpatrick maps every luminance L with low <= L < high  *)
(* of a band to that band's level, with confidence                        *)
(* 1 - |L - bandCenter| / (bandWidth/2) clamped into [0.7, 0.98].          *)
C3_Bands ==
    call.op = "_classify_fitzpatrick" =>
        \A i \in 1..6 :
            (/\ ClaimBands[i][1] * call.args.d <= call.args.n
             /\ call.args.n < ClaimBands[i][2] * call.args.d)
            => /\ call.ret.type = i
               /\ call.ret.confidence = ClaimConfidence(call.args, ClaimBands[i])

(* a lower bound, and a luminance whose confidence is not clamped *)
C3_Witness ==
    /\ call.op = "_classify_fitzpatrick"
    /\ \/ /\ call.args = RInt(75)
          /\ call.ret.type = 1
          /\ call.ret.confidence = Rat(7, 10)
       \/ /\ call.args = Rat(121, 2)
          /\ call.ret.type = 3
          /\ call.ret.confidence = Rat(9, 10)

(* C4: the season the orchestrator derives for a neutral undertone is     *)
(* spring when the tone level is <= 3 and winter when it is > 3.          *)
C4_NeutralSeason ==
    (/\ pc = "done"
     /\ result.detected
     /\ result.skin_tone # None
     /\ result.skin_tone.undertone = "neutral")
    => result.color_season =
           IF result.skin_tone.fitzpatrick_type <= 3 THEN "spring" ELSE "winter"

(* C5: for every tone level and every undertone in {warm, cool}, both     *)
(* get_season and determine_season return spring for warm and t <= 3,     *)
(* summer for cool and t <= 3, autumn for warm and t > 3, winter for cool *)
(* and t > 3.                                                             *)
C5_Seasons ==
    (/\ call.op \in {"get_season", "determine_season"}
     /\ call.args[2] \in {"warm", "cool"})
    => \/ call.args[2] = "warm" /\ call.args[1] <= 3 /\ call.ret = "spring"
       \/ call.args[2] = "cool" /\ call.args[1] <= 3 /\ call.ret = "summer"
       \/ call.args[2] = "warm" /\ call.args[1] > 3 /\ call.ret = "autumn"
       \/ call.args[2] = "cool" /\ call.args[1] > 3 /\ call.ret = "winter"

C5_Witness ==
    /\ call.op = "get_season"
    /\ call.args = <<3, "cool">>
    /\ call.ret = "summer"

(* C6: _classify_undertone returns warm when the ratio of the shifted     *)
(* chromaticities (b + 128) / (a + 128) is > 1.1, cool when it is < 0.9   *)
(* and neutral otherwise; exactly 1.1 and exactly 0.9 are neutral.        *)
C6_Undertone ==
    (call.op = "_classify_undertone" /\ call.args[1] + 128 > 0) =>
        LET a_shifted == call.args[1] + 128
            b_shifted == call.args[2] + 128
        IN  call.ret.undertone =
                IF 10 * b_shifted > 11 * a_shifted THEN "warm"
                ELSE IF 10 * b_shifted < 9 * a_shifted THEN "cool"
                ELSE "neutral"

(* a ratio of exactly 1.1 *)
C6_Witness ==
    /\ call.op = "_classify_undertone"
    /\ call.args = <<-28, -18>>
    /\ call.ret.undertone = "neutral"

(* C7: the ratio analyze classifies the undertone by is                   *)
(* (b* + 128) / (a* + 128) for the signed chromaticities a*, b* of the    *)
(* averaged colour, that is the ratio of the averaged 8-bit channels,     *)
(* each axis being shifted by +128 exactly once.                          *)
C7_ShiftOnce ==
    (call.op = "skin_tone.analyze" /\ call.ret # None) =>
        LET a_star == RSub(call.ret.lab_values[2], RInt(128))
            b_star == RSub(call.ret.lab_values[3], RInt(128))
        IN  RMul(call.ret.ratio, RAdd(a_star, RInt(128)))
                = RAdd(b_star, RInt(128))

AllEmpty(regions) ==
    \A i \in DOMAIN regions : regions[i].h = 0 \/ regions[i].w = 0

(* C8: analyze returns None when the list of regions is empty or every    *)
(* region in it has zero pixels.                                          *)
C8_EmptyInput ==
    (call.op = "skin_tone.analyze" /\ AllEmpty(call.args)) => call.ret = None

C8_Witness ==
    /\ call.op = "skin_tone.analyze"
    /\ Len(call.args) = 2
    /\ AllEmpty(call.args)
    /\ call.ret = None

(* C9: analyze returns a result whenever at least one input region is     *)
(* non-empty: the centre-crop fallback yields at least one sample for     *)
(* every region of height >= 1 and width >= 1.                            *)
C9_FallbackNeverEmpty ==
    (call.op = "skin_tone.analyze" /\ ~AllEmpty(call.args)) => call.ret # None

(* C10: classify returns oval for every mapping with                      *)
(* 1.1 < length/width < 1.3, 0.9 < forehead/jaw < 1.1 and                  *)
(* 130 < jawline angle < 150 whose cheekbone/forehead and cheekbone/jaw   *)
(* ratios do not both exceed 1.05.                                        *)
C10_Oval ==
    (/\ call.op = "classify"
     /\ {"length_width_ratio", "forehead_jaw_ratio", "jawline_angle"}
            \subseteq DOMAIN call.args)
    => LET m == call.args
           lw == m.length_width_ratio
           fj == m.forehead_jaw_ratio
           ja == m.jawline_angle
           fw == Get(m, "forehead_width", RInt(1))
           jw == Get(m, "jaw_width", RInt(1))
           cw == Get(m, "cheekbone_width", RInt(1))
           (* cheekbone / width > 1.05, the ratio being 1 for a zero width *)
           exceeds(width) ==
               width.n > 0 /\ 100 * cw.n * width.d > 105 * width.n * cw.d
       IN  (/\ 10 * lw.n > 11 * lw.d /\ 10 * lw.n < 13 * lw.d
            /\ 10 * fj.n > 9 * fj.d /\ 10 * fj.n < 11 * fj.d
            /\ ja.n > 130 * ja.d /\ ja.n < 150 * ja.d
            /\ ~(exceeds(fw) /\ exceeds(jw)))
           => call.ret.shape = "oval"

(* the mapping of test_oval_classification *)
C10_Witness ==
    /\ call.op = "classify"
    /\ call.args = [length_width_ratio |-> Rat(12, 10),
                    forehead_jaw_ratio |-> RInt(1),
                    jawline_angle |-> RInt(140),
                    forehead_width |-> RInt(100), jaw_width |-> RInt(100),
                    cheekbone_width |-> RInt(95)]
    /\ call.ret.shape = "oval"

(* C11: classify returns oblong for every mapping with length/width > 1.3 *)
(* and 0.9 < forehead/jaw < 1.1, whatever the jawline angle and the       *)
(* forehead, jaw and cheekbone widths.                                    *)
C11_Oblong ==
    (/\ call.op = "classify"
     /\ {"length_width_ratio", "forehead_jaw_ratio"} \subseteq DOMAIN call.args)
    => LET lw == call.args.length_width_ratio
           fj == call.args.forehead_jaw_ratio
       IN  (/\ 10 * lw.n > 13 * lw.d
            /\ 10 * fj.n > 9 * fj.d /\ 10 * fj.n < 11 * fj.d)
           => call.ret.shape = "oblong"

(* length/width 1.4 with both cheekbone ratios above 1.05: diamond scores *)
(* 0.8 and oblong 0.85                                                    *)
C11_Witness ==
    /\ call.op = "classify"
    /\ call.args = [length_width_ratio |-> Rat(14, 10),
                    forehead_jaw_ratio |-> RInt(1),
                    jawline_angle |-> RInt(140),
                    forehead_width |-> RInt(100), jaw_width |-> RInt(100),
                    cheekbone_width |-> RInt(110)]
    /\ call.ret.shape = "oblong"
    /\ call.ret.scores[6] = Rat(8, 10)

(* the category the authors expect for a reference vector *)
ReferenceShape(v) ==
    IF v = <<Rat(105, 100), Rat(98, 100), 135>> THEN "round"
    ELSE IF v = <<Rat(115, 100), Rat(12, 10), 145>> THEN "heart"
    ELSE IF v = <<Rat(11, 10), Rat(85, 100), 140>> THEN "triangle"
    ELSE IF v = <<Rat(105, 100), RInt(1), 160>> THEN "square"
    ELSE "any"

(* C12: on the reference vectors classify returns                         *)
(* (1.05, 0.98, 135) -> round, (1.15, 1.2, 145) -> heart,                 *)
(* (1.1, 0.85, 140) -> triangle, (1.05, 1.0, 160) -> square.              *)
C12_Reference ==
    call.op = "classify" =>
        \A v \in ReferenceVectors :
            (call.args = ReferenceMeasurement(v) /\ ReferenceShape(v) # "any")
            => call.ret.shape = ReferenceShape(v)

C12_Witness ==
    /\ call.op = "classify"
    /\ call.args = ReferenceMeasurement(<<Rat(11, 10), Rat(85, 100), 140>>)
    /\ call.ret.shape = "triangle"

(* the largest of the seven scores *)
TopScore(scores) ==
    scores[CHOOSE i \in 1..7 : \A j \in 1..7 : RLe(scores[j], scores[i])]

(* the second entry of the scores in descending order: the largest score *)
(* again when two categories share it                                    *)
RunnerUp(scores) ==
    LET top == TopScore(scores)
        below == {i \in 1..7 : scores[i] # top}
    IN  IF Cardinality({i \in 1..7 : scores[i] = top}) > 1 \/ below = {}
        THEN top
        ELSE scores[CHOOSE i \in below : \A j \in below : RLe(scores[j], scores[i])]

(* C13: when the largest of the seven scores is below 0.3, classify       *)
(* returns oval with confidence exactly 0.6; when it is at least 0.3, the *)
(* returned category is one whose score equals the largest score.         *)
C13_Floor ==
    call.op = "classify" =>
        LET top == TopScore(call.ret.scores) IN
        IF 10 * top.n < 3 * top.d
        THEN call.ret.shape = "oval" /\ call.ret.confidence = Rat(6, 10)
        ELSE \E i \in 1..7 : /\ ShapeOrder[i] = call.ret.shape
                             /\ call.ret.scores[i] = top

(* the best score is heart's 0.2 *)
C13_Witness ==
    /\ call.op = "classify"
    /\ TopScore(call.ret.scores) = Rat(2, 10)
    /\ call.ret.scores[7] = RInt(0)
    /\ call.ret.shape = "oval"
    /\ call.ret.confidence = Rat(6, 10)

(* C14: when the winning score is at least 0.3 the confidence is          *)
(* min(0.98, 0.7 + 0.5 * (highest - second-highest score)); the           *)
(* confidence always lies in [0, 1].                                      *)
C14_Confidence ==
    call.op = "classify" =>
        LET top == TopScore(call.ret.scores)
            gap == RSub(top, RunnerUp(call.ret.scores))
            c == call.ret.confidence
            (* 0.7 + 0.5 * gap = (7 * gap.d + 5 * gap.n) / (10 * gap.d) *)
            raw == Rat(7 * gap.d + 5 * gap.n, 10 * gap.d)
        IN  /\ c.n >= 0 /\ c.n <= c.d
            /\ 10 * top.n >= 3 * top.d =>
                   c = IF 100 * raw.n > 98 * raw.d THEN Rat(98, 100) ELSE raw

(* diamond and oval share the highest score 1.0: the gap is 0 *)
C14_Witness ==
    /\ call.op = "classify"
    /\ call.ret.scores[6] = RInt(1)
    /\ call.ret.scores[7] = RInt(1)
    /\ call.ret.confidence = Rat(7, 10)

(* the neutral values the claim names for the three classification keys *)
NeutralValue(key) ==
    IF key = "jawline_angle" THEN RInt(140) ELSE RInt(1)

(* the mapping with the neutral value filled in for each of the three *)
(* keys it lacks                                                      *)
Filled(m) ==
    [k \in DOMAIN m \cup {"length_width_ratio", "forehead_jaw_ratio",
                          "jawline_angle"} |->
        IF k \in DOMAIN m THEN m[k] ELSE NeutralValue(k)]

(* C15: classify returns a result for every measurement mapping,          *)
(* including the empty mapping and mappings with zero widths; a mapping   *)
(* missing length_width_ratio, forehead_jaw_ratio or jawline_angle is     *)
(* classified exactly like the mapping with 1.0, 1.0 or 140 filled in.    *)
C15_Defaults ==
    call.op = "classify" =>
        LET filled == classify(Filled(call.args)) IN
        /\ \E i \in 1..7 : call.ret.shape = ShapeOrder[i]
        /\ call.ret.shape = filled.shape
        /\ call.ret.confidence = filled.confidence
        /\ call.ret.reasoning = filled.reasoning

(* the empty mapping is classified like (1.0, 1.0, 140): round at 0.9 *)
C15_Witness ==
    /\ call.op = "classify"
    /\ DOMAIN call.args = {}
    /\ call.ret.shape = "round"
    /\ call.ret.confidence = Rat(9, 10)

ComputedScalpHeight(b) == b[2] - Max2(0, b[2] - (b[4] \div 2))

ComputedScalpWidth(img_width, b) ==
    Min2(img_width - Max2(0, b[1] - (b[3] \div 10)), (12 * b[3]) \div 10)

(* the slice starts at or beyond the last row or column of the image *)
EmptyCrop(img) ==
    \/ Max2(0, img.bbox[2] - (img.bbox[4] \div 2)) >= img.height
    \/ Max2(0, img.bbox[1] - (img.bbox[3] \div 10)) >= img.width

NoScalp(img) ==
    \/ ComputedScalpHeight(img.bbox) < 10
    \/ ComputedScalpWidth(img.width, img.bbox) < 10
    \/ EmptyCrop(img)

DefaultBaldness ==
    [coverage_level |-> "full", coverage_percentage |-> RInt(100),
     confidence |-> Rat(1, 2), requires_alternative_styling |-> FALSE]

(* C17: whenever the computed scalp height or width is below 10 px, or the *)
(* crop has zero pixels, BaldnessDetector.analyze returns level full,      *)
(* percentage 100.0, confidence 0.5 and requires_alternative_styling false *)
C17_NoScalp ==
    /\ (call.op = "baldness.analyze" /\ NoScalp(call.args))
           => call.ret = DefaultBaldness
    /\ ("hair_coverage" \in ran /\ NoScalp(image.scalp))
           => baldness_result = DefaultBaldness

(* a face box of full computed size whose scalp strip lies below the last *)
(* row of the image, on a crop that would otherwise count as bald         *)
C17_Witness ==
    /\ call.op = "baldness.analyze"
    /\ ComputedScalpHeight(call.args.bbox) >= 10
    /\ ComputedScalpWidth(call.args.width, call.args.bbox) >= 10
    /\ EmptyCrop(call.args)
    /\ call.args.hair = RInt(0)
    /\ call.ret = DefaultBaldness

(* the level that the returned percentage alone determines *)
LevelOf(r) ==
    /\ RLe(RInt(0), r.coverage_percentage)
    /\ RLe(r.coverage_percentage, RInt(100))
    /\ r.coverage_level = "full" <=> RLe(RInt(80), r.coverage_percentage)
    /\ r.coverage_level = "thinning" <=>
           /\ RLe(RInt(40), r.coverage_percentage)
           /\ RLt(r.coverage_percentage, RInt(80))
    /\ r.coverage_level = "bald" <=> RLt(r.coverage_percentage, RInt(40))

(* C18: the coverage percentage returned by BaldnessDetector.analyze lies *)
(* in [0, 100] and the level is full exactly when it is >= 80, thinning   *)
(* exactly when it is >= 40 and < 80, bald exactly when it is < 40.       *)
C18_Levels ==
    /\ call.op = "baldness.analyze" => LevelOf(call.ret)
    /\ "hair_coverage" \in ran => LevelOf(baldness_result)

(* a crop with exactly 40 percent hair is thinning *)
C18_Witness ==
    /\ call.op = "baldness.analyze"
    /\ ~NoScalp(call.args)
    /\ call.ret.coverage_percentage = RInt(40)
    /\ call.ret.coverage_level = "thinning"

AlternativeStyling(r) ==
    r.requires_alternative_styling <=> r.coverage_level # "full"

(* C19: in every result of BaldnessDetector.analyze,                     *)
(* requires_alternative_styling is true exactly when the level is not    *)
(* full: true for thinning and bald, false for full and for the no-scalp *)
(* default.                                                              *)
C19_Styling ==
    /\ call.op = "baldness.analyze" => AlternativeStyling(call.ret)
    /\ "hair_coverage" \in ran => AlternativeStyling(baldness_result)

(* a thinning result asks for alternative styling *)
C19_Witness ==
    /\ call.op = "baldness.analyze"
    /\ call.ret.coverage_level = "thinning"
    /\ call.ret.requires_alternative_styling

(* the confidences of the components that a returned result holds *)
PresentConfidences(r) ==
    Confidences(SelectSeq(<<r.skin_tone, r.face_shape, r.hair_coverage>>,
                          LAMBDA c : c # None))

(* C20: the overall_confidence of every result returned by                *)
(* FaceAnalyzer.analyze is the arithmetic mean of the confidences of      *)
(* exactly those of skin_tone, face_shape and hair_coverage that are      *)
(* present in the result, and 0.0 when none is present.                   *)
C20_Overall ==
    pc = "done" =>
        LET cs == PresentConfidences(result) IN
        IF cs = <<>>
        THEN result.overall_confidence = RInt(0)
        ELSE RMul(result.overall_confidence, RInt(Len(cs))) = RSum(cs)

(* a result without skin tone: the mean of the two other confidences *)
C20_Witness ==
    /\ pc = "done"
    /\ result.detected
    /\ result.skin_tone = None
    /\ result.face_shape # None
    /\ result.hair_coverage # None
    /\ RMul(result.overall_confidence, RInt(2)) =
           RAdd(result.face_shape.confidence, result.hair_coverage.confidence)
    /\ RLt(RInt(0), result.overall_confidence)

(* C21: the confidence of every SkinToneResult is the arithmetic mean of  *)
(* its tone confidence and its undertone confidence and lies in [0, 1],   *)
(* and the undertone confidence _classify_undertone returns never exceeds *)
(* 0.95, whatever a and b are.                                            *)
C21_Confidence ==
    /\ (call.op = "skin_tone.analyze" /\ call.ret # None) =>
          /\ RMul(call.ret.confidence, RInt(2)) =
                 RAdd(call.ret.fitz_confidence, call.ret.undertone_confidence)
          /\ RLe(RInt(0), call.ret.confidence)
          /\ RLe(call.ret.confidence, RInt(1))
    /\ call.op = "_classify_undertone.binary64" =>
          FLe(call.ret.confidence, Lit_0_95)

(* the optional keys of to_dict whose field the result holds *)
PresentFields(r) ==
    {k \in {"skin_tone", "face_shape", "hair_coverage"} : r[k] # None}
    \cup (IF r.color_season # NoSeason THEN {"color_season"} ELSE {})

(* C22: FaceAnalysisResult.to_dict always contains the keys detected and  *)
(* overall_confidence, and contains each of skin_tone, face_shape,        *)
(* hair_coverage and color_season exactly when that field of the result   *)
(* is present; for a no-detection result it contains only detected and    *)
(* overall_confidence.                                                    *)
C22_Keys ==
    call.op = "to_dict" =>
        /\ DOMAIN call.ret =
               {"detected", "overall_confidence"} \cup PresentFields(call.args)
        /\ ~call.args.detected =>
               DOMAIN call.ret = {"detected", "overall_confidence"}

(* a detected face without skin tone: four keys, no season *)
C22_Witness ==
    /\ call.op = "to_dict"
    /\ call.args.detected
    /\ call.args.skin_tone = None
    /\ DOMAIN call.ret =
           {"detected", "overall_confidence", "face_shape", "hair_coverage"}

(* the upload of the request was read and decoded into an image *)
Decoded(file) ==
    IsImageType(file.content_type) /\ file.readable /\ file.decodable

(* C23: in analyze_face a decoded image whose height or width is below    *)
(* 480 pixels is rejected with an HTTP 400 error before the analyzer is   *)
(* called: analyze never runs on it, and the 400 is not turned into a 500 *)
(* by the surrounding exception handler.                                  *)
C23_Rejected ==
    (/\ request # NoRequest
     /\ Decoded(request.file)
     /\ (request.file.height < 480 \/ request.file.width < 480)) =>
        /\ pc = "idle"
        /\ request.stage \in {"validate", "raised"}
        /\ request.stage = "raised" => request.response = HTTPException(400)

(* an image of 640 x 479 pixels has been rejected *)
C23_Witness ==
    /\ request.stage = "raised"
    /\ Decoded(request.file)
    /\ request.file.height = 479
    /\ request.file.width = 640
    /\ request.response.status_code = 400

(* the result analyze builds from the three classifier results *)
ResultOf(skin, shape, bald) ==
    [detected |-> TRUE, skin_tone |-> skin, face_shape |-> shape,
     hair_coverage |-> bald,
     color_season |-> IF skin # None
                      THEN get_season(skin.fitzpatrick_type, skin.undertone)
                      ELSE NoSeason,
     overall_confidence |->
         Mean(Confidences(SelectSeq(<<skin, shape, bald>>,
                                    LAMBDA r : r # None)))]

(* the result of analysing an image alone, on an analyzer of its own *)
AnalyzeAlone(img) ==
    IF ~img.face
    THEN [detected |-> FALSE, skin_tone |-> None, face_shape |-> None,
          hair_coverage |-> None, color_season |-> NoSeason,
          overall_confidence |-> RInt(0)]
    ELSE ResultOf(SkinToneAnalyze(SkinRegions(img.crops)),
                  classify(get_face_measurements(img.landmarks)),
                  BaldnessAnalyze(img.scalp))

ExpandedInImage(rect, img_w, img_h) ==
    [cols |-> {i \in 0..(img_w - 1) :
                  rect[1] - 5 <= i /\ i < rect[1] + rect[3] + 5},
     rows |-> {j \in 0..(img_h - 1) :
                  rect[2] - 5 <= j /\ j < rect[2] + rect[4] + 5}]

(* C25: the crop returned by FaceDetector.extract_roi is exactly the      *)
(* minimal bounding rectangle of the points expanded by 5 pixels on each  *)
(* of its four sides and intersected with the image rectangle; it is      *)
(* empty when that intersection is empty.                                 *)
C25_Crop ==
    call.op = "extract_roi" =>
        LET want == ExpandedInImage(boundingRect(call.args), RoiWidth, RoiHeight)
        IN  /\ call.ret.cols \X call.ret.rows = want.cols \X want.rows
            /\ (want.cols = {} \/ want.rows = {}) =>
                   (call.ret.cols = {} \/ call.ret.rows = {})

(* the face box lies inside the image *)
BoxInside(img) ==
    /\ 0 <= img.bbox[1]
    /\ 0 <= img.bbox[2]
    /\ img.bbox[1] + img.bbox[3] <= img.width
    /\ img.bbox[2] + img.bbox[4] <= img.height

(* 10% of the face width, rounded up *)
TenthUp(w) == (w + 9) \div 10

(* C26: for a face box (x, y, w, h) inside the image the scalp rectangle  *)
(* that _extract_scalp_region returns lies inside the image, ends at the  *)
(* top edge y of the face box, is at most floor(h/2) pixels tall and      *)
(* reaches at most 10% of the face width, rounded up, beyond the left     *)
(* edge x and beyond the right edge x + w of the face box; none is        *)
(* returned when its height or its width is below 10 pixels.              *)
C26_Scalp ==
    (call.op = "_extract_scalp_region" /\ BoxInside(call.args)) =>
        /\ (\/ ComputedScalpHeight(call.args.bbox) < 10
            \/ ComputedScalpWidth(call.args.width, call.args.bbox) < 10)
               => call.ret = None
        /\ call.ret # None =>
               /\ 0 <= call.ret.scalp_x
               /\ call.ret.scalp_x + call.ret.scalp_w <= call.args.width
               /\ 0 <= call.ret.scalp_y
               /\ call.ret.scalp_y + call.ret.scalp_h <= call.args.height
               /\ call.ret.scalp_y + call.ret.scalp_h = call.args.bbox[2]
               /\ call.ret.scalp_h <= call.args.bbox[4] \div 2
               /\ call.args.bbox[1] - call.ret.scalp_x
                      <= TenthUp(call.args.bbox[3])
               /\ (call.ret.scalp_x + call.ret.scalp_w)
                      - (call.args.bbox[1] + call.args.bbox[3])
                      <= TenthUp(call.args.bbox[3])

(* C27: get_face_measurements never fails on a zero denominator:          *)
(* length_width_ratio is 0 when face_width is 0 and face_length /         *)
(* face_width otherwise, forehead_jaw_ratio is 0 when jaw_width is 0 and  *)
(* forehead_width / jaw_width otherwise, and every distance it reports is *)
(* at least 0.                                                            *)
C27_Ratios ==
    call.op = "get_face_measurements" =>
        /\ DOMAIN call.ret = MeasurementKeys
        /\ IF call.args[FACE_LEFT] = call.args[FACE_RIGHT]
           THEN call.ret.face_width = RInt(0)
                /\ call.ret.length_width_ratio = RInt(0)
           ELSE RMul(call.ret.length_width_ratio, call.ret.face_width)
                    = call.ret.face_length
        /\ IF call.args[JAW_LEFT] = call.args[JAW_RIGHT]
           THEN call.ret.jaw_width = RInt(0)
                /\ call.ret.forehead_jaw_ratio = RInt(0)
           ELSE RMul(call.ret.forehead_jaw_ratio, call.ret.jaw_width)
                    = call.ret.forehead_width
        /\ \A k \in {"face_length", "face_width", "forehead_width",
                      "jaw_width", "cheekbone_width"} :
               RLe(RInt(0), call.ret[k])

(* both denominators are 0, and so is the one of the cosine at the chin *)
C27_Witness ==
    /\ call.op = "get_face_measurements"
    /\ call.args[FACE_LEFT] = call.args[FACE_RIGHT]
    /\ call.args[JAW_LEFT] = call.args[JAW_RIGHT]
    /\ call.args[JAW_LEFT] = call.args[FACE_BOTTOM]
    /\ call.ret.face_length = RInt(100)
    /\ call.ret.length_width_ratio = RInt(0)
    /\ call.ret.forehead_jaw_ratio = RInt(0)
    /\ call.ret.jawline_angle = NaN

(* the bands whose lower bound is at or below l and whose upper bound is *)
(* above l                                                               *)
BandsHolding(l) ==
    {i \in 1..6 : /\ RLe(RInt(FITZPATRICK_L_THRESHOLDS[i].low), l)
                  /\ RLt(l, RInt(FITZPATRICK_L_THRESHOLDS[i].high))}

(* C28: the six tone bands partition [0, 100): every luminance L with     *)
(* 0 <= L < 100 lies in exactly one band, lower bound inclusive and upper *)
(* bound exclusive, and a luminance outside all bands snaps to the        *)
(* nearest end at confidence 0.85: level 1 for L >= 100, level 6 for      *)
(* L < 0.                                                                 *)
C28_Partition ==
    call.op = "_classify_fitzpatrick" =>
        /\ (RLe(RInt(0), call.args) /\ RLt(call.args, RInt(100))) =>
               /\ Cardinality(BandsHolding(call.args)) = 1
               /\ call.ret.type \in BandsHolding(call.args)
        /\ RLe(RInt(100), call.args) =>
               /\ BandsHolding(call.args) = {}
               /\ call.ret = [type |-> 1, confidence |-> Rat(85, 100)]
        /\ RLt(call.args, RInt(0)) =>
               /\ BandsHolding(call.args) = {}
               /\ call.ret = [type |-> 6, confidence |-> Rat(85, 100)]

(* a luminance of exactly 100, and one below 0 *)
C28_Witness ==
    /\ call.op = "_classify_fitzpatrick"
    /\ \/ call.args = RInt(100) /\ call.ret.type = 1
       \/ call.args = Rat(-1, 2) /\ call.ret.type = 6
    /\ call.ret.confidence = Rat(85, 100)

(* the categories whose score is the largest of the seven *)
Tied(scores) ==
    {i \in 1..7 : scores[i] = TopScore(scores)}

(* C29: when two or more categories share the highest score and it is at *)
(* least 0.3, classify returns the one that comes first in the order     *)
(* round, oblong, heart, triangle, square, diamond, oval, with           *)
(* confidence 0.7; oval never wins a tie.                                *)
C29_Tie ==
    call.op = "classify" =>
        LET scores == call.ret.scores
            top == TopScore(scores)
            tied == Tied(scores)
        IN  (Cardinality(tied) >= 2 /\ 10 * top.n >= 3 * top.d) =>
                /\ call.ret.shape =
                       ShapeOrder[CHOOSE i \in tied : \A j \in tied : i <= j]
                /\ call.ret.confidence = Rat(7, 10)
                /\ call.ret.shape # "oval"

(* length/width 1.2, forehead/jaw 1.0, angle 140 and cheekbones 1.1 times *)
(* the forehead and the jaw: diamond and oval both score 1.0 and diamond  *)
(* is returned                                                            *)
C29_Witness ==
    /\ call.op = "classify"
    /\ call.args = [length_width_ratio |-> Rat(12, 10),
                    forehead_jaw_ratio |-> RInt(1),
                    jawline_angle |-> RInt(140),
                    forehead_width |-> RInt(100), jaw_width |-> RInt(100),
                    cheekbone_width |-> RInt(110)]
    /\ Tied(call.ret.scores) = {6, 7}
    /\ call.ret.shape = "diamond"
    /\ call.ret.confidence = Rat(7, 10)

(* C30: in every result of FaceAnalyzer.analyze with detected true,      *)
(* face_shape and hair_coverage are present, color_season is present     *)
(* exactly when skin_tone is, and overall_confidence is at least 0.55;   *)
(* overall_confidence is 0.0 if and only if detected is false.           *)
C30_Detected ==
    pc = "done" =>
        /\ result.detected =>
               /\ result.face_shape # None
               /\ result.hair_coverage # None
               /\ (result.color_season # NoSeason) <=> (result.skin_tone # None)
               /\ RLe(Rat(55, 100), result.overall_confidence)
        /\ (result.overall_confidence = RInt(0)) <=> ~result.detected

(* no skin tone, the fallback to oval at 0.6 and no scalp region at 0.5: *)
(* the overall confidence is exactly 0.55                                *)
C30_Witness ==
    /\ pc = "done"
    /\ result.detected
    /\ result.skin_tone = None
    /\ result.color_season = NoSeason
    /\ result.face_shape # None
    /\ result.face_shape.confidence = Rat(6, 10)
    /\ result.hair_coverage # None
    /\ result.hair_coverage.confidence = Rat(5, 10)
    /\ result.overall_confidence = Rat(55, 100)

====
